---- MODULE Spec2Model ----
(***************************************************************************)
(* Model of chimera-spawn: the container / image providers acting on the   *)
(* host (src/chimera/providers), the reconciliation engine                 *)
(* (src/chimera/agent/engine.py), the control-plane dispatchers            *)
(* (src/chimera/agent/ipc.py, server.py), the streaming session of         *)
(* server.py and the spec store's cloud-init template resolution           *)
(* (src/chimera/agent/config.py), the host driver                          *)
(* (src/chimera/utils/systemd.py), the agent's main loop                   *)
(* (src/chimera/agent/main.py) and the provider registry                   *)
(* (src/chimera/providers/registry.py).                                    *)
(*                                                                         *)
(* The module holds several specifications over one set of variables; a    *)
(* specification leaves the variables of the other parts at their initial  *)
(* value.                                                                  *)
(*   SpecProvider : one container provider called directly on a host       *)
(*   Spec         : two reconcile() invocations and an imperative operator *)
(*   SpecReload   : two reconcile() invocations and a catalog reload       *)
(*   SpecControl  : requests at the IPC and HTTP servers                   *)
(*   SpecMerge    : a container's cloud_init resolved against a template   *)
(*   SpecLifecycle: start / stop of the container provider on a host       *)
(*   SpecStream   : one WebSocket streaming session                        *)
(*   SpecApi      : one imperative operator, alone                         *)
(*   SpecPass     : one reconcile() pass, alone                            *)
(*   SpecPasses   : two reconcile() passes and no other operator           *)
(*   SpecDriver   : SystemdDBus calls with their systemctl fallback        *)
(*   SpecAgent    : ChimeraAgent.run: server, periodic loop, watcher,      *)
(*                  shutdown                                               *)
(*   FairAgent    : SpecAgent with an event loop that keeps running the    *)
(*                  reconcile() tasks                                      *)
(*   SpecRegistry : ProviderRegistry.initialize                            *)
(*   SpecValidate : the validate command                                   *)
(*   SpecExec     : ContainerProvider.execute's command line               *)
(*   SpecImage    : the image provider called directly on a host           *)
(*   SpecDrift    : one reconcile() pass on a host whose container lost    *)
(*                  its config file or override                            *)
(*   SpecReady    : ContainerProvider.start with its ready-wait, probe by  *)
(*                  probe; FairReady adds that the call keeps running      *)
(***************************************************************************)
EXTENDS Integers, Sequences, FiniteSets, TLC

VARIABLES
    \* --- provider part: ContainerProvider called on one container "x"
    pSpec,      \* the (enriched) ContainerSpec the provider is called with
    pHost,      \* host state of the container
    pBefore,    \* host state before the last provider call
    pLast,      \* the last provider call: op, result, log of host commands
    pPrev,      \* the provider call before it
    \* --- engine part: ConfigManager catalogs, the host, StateEngine and its tasks
    images,             \* ConfigManager.images, in insertion order
    containers,         \* ConfigManager.containers, in insertion order
    hostI,              \* host image store: image name -> state
    hostC,              \* host machines: container name -> state
    holder,             \* task inside `async with self._reconciliation_lock`
    waiters,            \* asyncio.Lock._waiters, FIFO
    cpu,                \* the task running between two awaits ("none": event loop idle)
    pc,                 \* task -> the await it is suspended at / code position
    loc,                \* task -> locals (loop index, dict size at loop start, spec)
    clog,               \* task -> provider calls begun by its invocation, in order
    result,             \* task -> outcome of its invocation
    last_reconciliation,\* number of passes that recorded their end timestamp
    container_states,   \* StateEngine._container_states
    faults,             \* host command failures injected so far
    loads,              \* ConfigManager.load() calls so far
    \* --- control plane: one request at a server and its answer
    request,            \* the last request: server, route, command, peer credentials
    response,           \* the answer sent for it
    handled,            \* the handler the request was dispatched to ("none": none)
    \* --- cloud-init resolution in ConfigManager._load_containers
    cloud_init_templates,   \* ConfigManager.cloud_init_templates
    node_cloud_init,        \* the `cloud_init` mapping of a container in a nodes file
    cloud_init,             \* ContainerSpec.cloud_init of the loaded container
    \* --- one streaming session of AgentServer._handle_stream
    inbox,              \* frames the client has sent and the server has not read
    processed,          \* frames pump_write has read, in order
    pty_in,             \* byte strings written to the pty master, in order
    winsize,            \* window size of the pty
    master,             \* pty master descriptor: "none", "open", "closed"
    slave,              \* the server's pty slave descriptor
    child,              \* machinectl shell: "none", "running", "exited", "reaped"
    read_task,          \* pump_read: "none", "running", "cancelled", "done"
    write_task,         \* pump_write
    handler,            \* _handle_stream: "idle", "waiting", "reaping", "returned", "raised"
    \* --- host driver: SystemdDBus called on the units of the host
    units,              \* unit name -> [active, enabled]
    unit_call,          \* the last SystemdDBus call and how it ended
    \* --- agent: ChimeraAgent.run and its tasks; the periodic loop's reconcile()
    \* --- is task "r1", an out-of-cycle reconcile() of the watcher is task "r2"
    shutdown_event,     \* ChimeraAgent.shutdown_event is set
    run_pc,             \* run(): "new", "waiting", "gathering", "returned"
    tasks,              \* ChimeraAgent._tasks: task -> "none", "created", "running",
                        \*   "finished", "cancelled"
    server,             \* IPCServer: [listening, socket (the socket file exists)]
    last_load,          \* how the watcher's last load() ended: "none", "ok", "failed"
    scheduled,          \* out-of-cycle reconcile() tasks the watcher has created
    oc_started,         \* out-of-cycle reconcile() tasks that have begun to run
    passes,             \* reconcile() calls of the periodic loop
    \* --- provider registry: ProviderRegistry.initialize
    provider_classes,   \* ProviderRegistry._provider_classes, in insertion order
    providers,          \* ProviderRegistry._providers, in insertion order
    init_calls,         \* provider name -> calls of its initialize
    cloudinit_ref,      \* ContainerProvider._cloudinit_provider
    reg_pc,             \* initialize(): "new", "phase2", "done", "raised"
    reg_i,              \* initialize(): position of the second loop
    lookup,             \* the last get_provider call and what it returned
    \* --- the validate command
    validation,         \* the last validate command: its answer and the provider
                        \*   calls its handler made
    \* --- ContainerProvider.execute: the command line it builds
    argv,               \* the command to execute: a list of strings (lists of characters)
    exec_call,          \* the last execute(): the host command run and the result
    \* --- ImageProvider called directly on one image
    iSpec,              \* the ImageSpec the provider is called with
    iHost,              \* host state of the image
    iLast,              \* the last image provider call: op, result, host commands
    \* --- ContainerProvider.start, probe by probe
    ready               \* one start(): position, loop index, commands issued so far

pvars == <<pSpec, pHost, pBefore, pLast, pPrev>>

catalog == <<images, containers>>

host == <<hostI, hostC>>

evars == <<images, containers, hostI, hostC, holder, waiters, cpu, pc, loc, clog,
           result, last_reconciliation, container_states, faults, loads>>

\* the control plane and the catalog loader's cloud-init resolution
cvars == <<request, response, handled>>

mvars == <<cloud_init_templates, node_cloud_init, cloud_init>>

svars == <<inbox, processed, pty_in, winsize, master, slave, child, read_task,
           write_task, handler>>

dvars == <<units, unit_call>>

avars == <<shutdown_event, run_pc, tasks, server, last_load, scheduled, oc_started,
           passes>>

rvars == <<provider_classes, providers, init_calls, cloudinit_ref, reg_pc, reg_i,
           lookup>>

vvars == <<validation>>

qvars == <<argv, exec_call>>

ivars == <<iSpec, iHost, iLast>>

wvars == <<ready>>

\* further parts: the command line of execute, the image provider called directly,
\* start() with its ready-wait
zvars == <<qvars, ivars, wvars>>

\* the parts below the control plane: the host driver, the agent's main loop,
\* the provider registry, the validate command
ovars == <<dvars, avars, rvars, vvars, zvars>>

xvars == <<cvars, mvars, svars, ovars>>

vars == <<pvars, evars, xvars>>

(***************************************************************************)
(* ProviderStatus (providers/base.py)                                      *)
(***************************************************************************)
PRESENT == "present"
ABSENT  == "absent"
UNKNOWN == "unknown"
ERROR   == "error"

(***************************************************************************)
(* Specs.  Optional[...] private attributes are records with a `some`      *)
(* flag (None has some = FALSE).                                           *)
(***************************************************************************)
None == [some |-> FALSE, name |-> "", type |-> "tar", custom_files |-> FALSE]

ImageSpec(n, t, cf) == [some |-> TRUE, name |-> n, type |-> t, custom_files |-> cf]

NoProfile == [some |-> FALSE, name |-> "",
              nspawn_config_content |-> FALSE, systemd_override_content |-> FALSE]

ProfileSpec(n, nc, so) == [some |-> TRUE, name |-> n,
                           nspawn_config_content |-> nc, systemd_override_content |-> so]

ContainerSpec(n, img, prof, ens, st, auto, ci) ==
    [name |-> n, image |-> img, profile |-> prof, ensure |-> ens, state |-> st,
     autostart |-> auto, cloud_init |-> ci,
     image_spec |-> None, profile_spec |-> NoProfile]

(***************************************************************************)
(* Host state of one container name:                                       *)
(*   registered : `machinectl show <name>` exits 0                         *)
(*   dir        : <machines_dir>/<name> exists                             *)
(*   raw        : <machines_dir>/<name>.raw exists                         *)
(*   seed       : the nocloud seed directory inside the container root     *)
(*   nspawn     : <nspawn_dir>/<name>.nspawn exists                        *)
(*   override   : <system_dir>/systemd-nspawn@<name>.service.d exists      *)
(*   enabled    : unit systemd-nspawn@<name>.service is enabled            *)
(*   active     : its active-state is "active"                             *)
(***************************************************************************)
NoContainer == [registered |-> FALSE, dir |-> FALSE, raw |-> FALSE, seed |-> FALSE,
                nspawn |-> FALSE, override |-> FALSE, enabled |-> FALSE,
                active |-> FALSE]

HostStates == [registered : BOOLEAN, dir : BOOLEAN, raw : BOOLEAN, seed : {FALSE},
               nspawn : BOOLEAN, override : BOOLEAN, enabled : BOOLEAN,
               active : BOOLEAN]

(***************************************************************************)
(* A provider call is a run over the host: the host state, the host        *)
(* commands issued so far, whether an exception is propagating, and the    *)
(* number of ready-wait probes made.  F is the set of host commands that   *)
(* fail during the call.                                                   *)
(***************************************************************************)
Run(h) == [h |-> h, log |-> <<>>, ok |-> TRUE, probes |-> 0]

\* a host command whose failure raises
Exec(r, cmd, F, h2) ==
    IF ~r.ok THEN r
    ELSE IF cmd \in F THEN [r EXCEPT !.log = Append(@, cmd), !.ok = FALSE]
    ELSE [r EXCEPT !.log = Append(@, cmd), !.h = h2]

\* a host command wrapped in try/except that only logs
ExecLogged(r, cmd, F, h2) ==
    IF ~r.ok THEN r
    ELSE IF cmd \in F THEN [r EXCEPT !.log = Append(@, cmd)]
    ELSE [r EXCEPT !.log = Append(@, cmd), !.h = h2]

ReadyTimeout == 30

is_raw_image_never(spec) == FALSE

is_raw_image(spec) == spec.image_spec.some /\ spec.image_spec.type = "raw"

status_cleaning(h, spec, F) ==
    IF "show" \in F THEN [h |-> h, log |-> <<"show">>, res |-> ERROR]
    ELSE IF h.registered THEN [h |-> h, log |-> <<"show">>, res |-> PRESENT]
    ELSE IF (h.dir \/ h.raw) /\ h.raw /\ is_raw_image(spec)
         THEN [h |-> h, log |-> <<"show">>, res |-> PRESENT]
    ELSE [h |-> [h EXCEPT !.dir = FALSE, !.raw = FALSE, !.seed = FALSE,
                          !.nspawn = FALSE, !.override = FALSE],
          log |-> IF h.dir \/ h.raw THEN <<"show", "cleanup">> ELSE <<"show">>,
          res |-> ABSENT]

status(h, spec, F) ==
    IF "show" \in F THEN [h |-> h, log |-> <<"show">>, res |-> ERROR]
    ELSE IF h.registered THEN [h |-> h, log |-> <<"show">>, res |-> PRESENT]
    ELSE IF (h.dir \/ h.raw) /\ h.raw /\ is_raw_image(spec)
         THEN [h |-> h, log |-> <<"show">>, res |-> PRESENT]
    ELSE [h |-> h, log |-> <<"show">>, res |-> ABSENT]

\* get_unit_state raising is caught: the container counts as not running
is_running_always(r, F) == TRUE

is_running(r, F) == IF "get_unit_state" \in F THEN FALSE ELSE r.h.active

Query(r, cmd) == IF r.ok THEN [r EXCEPT !.log = Append(@, cmd)] ELSE r

\* one probe per second until one succeeds, at most ReadyTimeout; never raises
wait_for_ready(r, F) ==
    IF ~r.ok THEN r
    ELSE IF "probe" \in F
         THEN [r EXCEPT !.log = Append(@, "probe"), !.probes = ReadyTimeout]
    ELSE [r EXCEPT !.log = Append(@, "probe"), !.probes = 1]

start_unconditional(r, F) ==
    LET q == Query(r, "get_unit_state")
    IN  IF ~q.ok THEN q
        ELSE wait_for_ready(Exec(q, "start_unit", F, [q.h EXCEPT !.active = TRUE]), F)

start(r, F) ==
    LET q == Query(r, "get_unit_state")
    IN  IF ~q.ok \/ is_running(q, F) THEN q
        ELSE wait_for_ready(Exec(q, "start_unit", F, [q.h EXCEPT !.active = TRUE]), F)

stop_nothing(r, F) == Query(r, "get_unit_state")

stop(r, F) ==
    LET q == Query(r, "get_unit_state")
    IN  IF ~q.ok \/ ~is_running(q, F) THEN q
        ELSE Exec(q, "stop_unit", F, [q.h EXCEPT !.active = FALSE])

create_nspawn_config(r, F) ==
    LET w == Exec(r, "write_nspawn", F, [r.h EXCEPT !.nspawn = TRUE])
    IN  Exec(w, "reload", F, w.h)

create_systemd_override_skipped(r, F) == r

create_systemd_override(r, F) ==
    LET w == Exec(r, "write_override", F, [r.h EXCEPT !.override = TRUE])
    IN  Exec(w, "reload", F, w.h)

enable_service(r, F) == ExecLogged(r, "enable", F, [r.h EXCEPT !.enabled = TRUE])

disable_service(r, F) == ExecLogged(r, "disable", F, [r.h EXCEPT !.enabled = FALSE])

ensure_configs_enable_first(r, spec, F) ==
    LET r1 == IF spec.autostart THEN enable_service(r, F) ELSE r
        r2 == IF spec.profile_spec.some /\ spec.profile_spec.nspawn_config_content
              THEN create_nspawn_config(r1, F) ELSE r1
        r3 == IF spec.profile_spec.some /\ spec.profile_spec.systemd_override_content
              THEN create_systemd_override(r2, F) ELSE r2
    IN  IF spec.state = "running" THEN start(r3, F) ELSE r3

ensure_configs(r, spec, F) ==
    LET r1 == IF spec.profile_spec.some /\ spec.profile_spec.nspawn_config_content
              THEN create_nspawn_config(r, F) ELSE r
        r2 == IF spec.profile_spec.some /\ spec.profile_spec.systemd_override_content
              THEN create_systemd_override(r1, F) ELSE r1
        r3 == IF spec.autostart THEN enable_service(r2, F) ELSE r2
    IN  IF spec.state = "running" THEN start(r3, F) ELSE r3

cleanup_config_files_keep_override(r, F) ==
    IF r.ok /\ r.h.nspawn
    THEN Exec(r, "unlink_nspawn", F, [r.h EXCEPT !.nspawn = FALSE]) ELSE r

cleanup_config_files(r, F) ==
    LET r1 == IF r.ok /\ r.h.nspawn
              THEN Exec(r, "unlink_nspawn", F, [r.h EXCEPT !.nspawn = FALSE]) ELSE r
    IN  IF r1.ok /\ r1.h.override
        THEN Exec(r1, "rmtree_override", F, [r1.h EXCEPT !.override = FALSE]) ELSE r1

cleanup_partial_container_configs_only(r, F) == cleanup_config_files(r, F)

cleanup_partial_container(r, F) ==
    LET r1 == IF r.ok /\ r.h.dir
              THEN Exec(r, "rmtree_dir", F, [r.h EXCEPT !.dir = FALSE, !.seed = FALSE])
              ELSE r
        r2 == IF r1.ok /\ r1.h.raw
              THEN Exec(r1, "unlink_raw", F, [r1.h EXCEPT !.raw = FALSE]) ELSE r1
    IN  cleanup_config_files(r2, F)

\* machinectl clone: the machine becomes known; a tar image yields a directory,
\* a raw image a .raw file.  "clone_partial": the clone fails leaving the files.
clone(r, spec, F) ==
    LET files == IF is_raw_image(spec) THEN [r.h EXCEPT !.raw = TRUE]
                                       ELSE [r.h EXCEPT !.dir = TRUE]
    IN  IF ~r.ok THEN r
        ELSE IF "clone_partial" \in F
             THEN [r EXCEPT !.log = Append(@, "clone"), !.ok = FALSE, !.h = files]
        ELSE Exec(r, "clone", F, [files EXCEPT !.registered = TRUE])

apply_custom_files(r, F) == ExecLogged(r, "custom_files", F, r.h)

prepare(r, F) == Exec(r, "cloudinit_prepare", F, [r.h EXCEPT !.seed = TRUE])

present_steps(r, st, spec, F) ==
    IF st = PRESENT THEN ensure_configs(r, spec, F)
    ELSE
      LET r1 == cleanup_partial_container(r, F)
          r2 == clone(r1, spec, F)
          r3 == IF ~is_raw_image(spec) /\ spec.image_spec.some
                   /\ spec.image_spec.custom_files
                THEN apply_custom_files(r2, F) ELSE r2
          r4 == IF ~is_raw_image(spec) /\ spec.cloud_init
                THEN prepare(r3, F) ELSE r3
      IN  ensure_configs(r4, spec, F)

present_always_clone(h, spec, F) ==
    LET st == status(h, spec, F)
    IN  present_steps([Run(st.h) EXCEPT !.log = st.log], ABSENT, spec, F)

present(h, spec, F) ==
    LET st == status(h, spec, F)
    IN  present_steps([Run(st.h) EXCEPT !.log = st.log], st.res, spec, F)

absent_remove_first(h, spec, F) ==
    LET st == status(h, spec, F)
        r0 == [Run(st.h) EXCEPT !.log = st.log]
        r1 == IF st.res = PRESENT
              THEN LET m == Exec(r0, "remove", F,
                                 [r0.h EXCEPT !.registered = FALSE, !.dir = FALSE,
                                              !.raw = FALSE, !.seed = FALSE])
                   IN  disable_service(stop(m, F), F)
              ELSE r0
    IN  cleanup_partial_container(r1, F)

absent(h, spec, F) ==
    LET st == status(h, spec, F)
        r0 == [Run(st.h) EXCEPT !.log = st.log]
        r1 == IF st.res = PRESENT
              THEN LET s == stop(r0, F)
                       d == disable_service(s, F)
                   IN  Exec(d, "remove", F,
                            [d.h EXCEPT !.registered = FALSE, !.dir = FALSE,
                                        !.raw = FALSE, !.seed = FALSE])
              ELSE r0
    IN  cleanup_partial_container(r1, F)


(***************************************************************************)
(* Image provider (providers/image.py).  Host state of one image name:     *)
(* present (machinectl show-image exits 0) and read-only.                  *)
(***************************************************************************)
NoImage == [present |-> FALSE, readonly |-> FALSE]

PulledImage == [present |-> TRUE, readonly |-> TRUE]

img_status(ih, F) ==
    IF "show_image" \in F THEN ERROR
    ELSE IF ih.present THEN PRESENT ELSE ABSENT

\* has_temp_files is what the glob finds: "temp_files" \in F stands for leftovers
clean_temp_files(r, F) ==
    IF "temp_files" \in F THEN ExecLogged(r, "clean", F, r.h) ELSE r

make_read_only(r, F) ==
    LET q == Exec(r, "show_image_ro", F, r.h)
    IN  IF ~q.ok \/ q.h.readonly THEN q
        ELSE Exec(q, "read-only", F, [q.h EXCEPT !.readonly = TRUE])

img_present(ih, spec, F) ==
    LET r0 == [Run(ih) EXCEPT !.log = <<"show_image">>]
    IN  IF img_status(ih, F) = PRESENT THEN r0
        ELSE LET pull_cmd == IF spec.type = "tar" THEN "pull-tar" ELSE "pull-raw"
                 p == Exec(r0, pull_cmd, F, [ih EXCEPT !.present = TRUE])
             IN  make_read_only(clean_temp_files(p, F), F)

(***************************************************************************)
(* The desired-state catalog.  Dicts are sequences in insertion order.     *)
(***************************************************************************)
Reconcilers == {"r1", "r2"}

Tasks == Reconcilers \cup {"api"}

ImageNames == {"u-tar", "deb-raw"}

ContainerNames == {"c1", "c2"}

TheImages == <<ImageSpec("u-tar", "tar", TRUE), ImageSpec("deb-raw", "raw", FALSE)>>

TheProfiles == <<ProfileSpec("isolated", TRUE, TRUE)>>

\* c1 in its variants (good, stopped, to be removed, dangling image, dangling
\* profile), then c2 on the raw image
C1Variants ==
    { ContainerSpec("c1", "u-tar", "isolated", "present", "running", TRUE, TRUE),
      ContainerSpec("c1", "u-tar", "isolated", "present", "stopped", TRUE, FALSE),
      ContainerSpec("c1", "u-tar", "isolated", "absent", "running", TRUE, FALSE),
      ContainerSpec("c1", "ghost", "isolated", "present", "running", TRUE, FALSE),
      ContainerSpec("c1", "u-tar", "ghost", "present", "running", TRUE, FALSE) }

C2Spec == ContainerSpec("c2", "deb-raw", "isolated", "present", "running", FALSE, FALSE)

Catalogs == { <<c, C2Spec>> : c \in C1Variants }

Lookup(seq, name, none) ==
    IF \E i \in 1..Len(seq) : seq[i].name = name
    THEN seq[CHOOSE i \in 1..Len(seq) : seq[i].name = name]
    ELSE none

get_image_spec(name) == Lookup(images, name, None)

get_profile_spec(name) == Lookup(TheProfiles, name, NoProfile)

NoSpec == ContainerSpec("", "", "", "present", "running", FALSE, FALSE)

HasContainer(name) == \E i \in 1..Len(containers) : containers[i].name = name

get_container_spec(name) == Lookup(containers, name, NoSpec)

IndexOf(name) == CHOOSE i \in 1..Len(containers) : containers[i].name = name

\* a reference that resolves is stored; one that does not leaves the attribute
\* as it was
enrich_container_spec(spec) ==
    LET i  == get_image_spec(spec.image)
        s1 == IF spec.image # "" /\ i.some THEN [spec EXCEPT !.image_spec = i] ELSE spec
        pr == get_profile_spec(spec.profile)
    IN  IF spec.profile # "" /\ pr.some THEN [s1 EXCEPT !.profile_spec = pr] ELSE s1

validate_spec(spec) == spec.image_spec.some /\ spec.profile_spec.some

(***************************************************************************)
(* asyncio.Lock: acquire() takes a free lock at once only when nobody      *)
(* waits; otherwise it queues.  release() frees the lock and wakes the     *)
(* first waiter, which takes the lock when it next runs.                   *)
(***************************************************************************)
CanAcquire_unlocked == TRUE

CanAcquire == holder = "none" /\ waiters = <<>>

Woken(t) == holder = "none" /\ waiters # <<>> /\ Head(waiters) = t

(***************************************************************************)
(* Tasks.  A task runs alone from one await to the next (cpu); provider    *)
(* calls are awaits: the call is in flight while the task is suspended at  *)
(* it, and its effect on the host is applied when it resumes.              *)
(***************************************************************************)
PassPcs == {"img_loop", "img_status", "img_present", "cont_loop", "c_status",
            "c_present", "c_is_running", "c_start", "c_stop", "c_absent"}

CallPcs == {"img_status", "img_present", "c_status", "c_present", "c_is_running",
            "c_start", "c_stop", "c_absent",
            "a_img_status", "a_img_present", "a_present", "a_start", "a_stop",
            "a_absent", "a_status", "a_is_running", "a_execute"}

MutatingApiPcs == {"a_present", "a_start", "a_stop", "a_absent", "a_execute"}

NoLoc == [idx |-> 0, n |-> 0, img |-> None, spec |-> NoSpec, op |-> "", name |-> ""]

MaxFaults == 1

MaxLoads == 1

EngineFaults == {{}, {"show"}, {"show_image"}, {"pull-tar", "pull-raw"}, {"clone"},
                 {"start_unit"}, {"stop_unit"}, {"remove"}}

NoFaults == {{}}

InLog(cmd, log) == \E i \in 1..Len(log) : log[i] = cmd

\* no host command of the call failed
Clean(r, F) == /\ \A f \in F : ~InLog(f, r.log)
               /\ "clone_partial" \in F => ~InLog("clone", r.log)

\* a fault set may be drawn when it is empty, or it is hit and the budget allows
MayFail(F, hit) == F = {} \/ (hit /\ faults < MaxFaults)

Spend(F) == faults' = IF F = {} THEN faults ELSE faults + 1

CreatedRunning == [registered |-> TRUE, dir |-> TRUE, raw |-> FALSE, seed |-> FALSE,
                   nspawn |-> TRUE, override |-> TRUE, enabled |-> TRUE,
                   active |-> TRUE]

OrphanDir == [NoContainer EXCEPT !.dir = TRUE]

CreatedStopped == [CreatedRunning EXCEPT !.active = FALSE]

EInit ==
    /\ images = TheImages
    /\ containers \in Catalogs
    /\ hostI \in {[n \in ImageNames |-> NoImage], [n \in ImageNames |-> PulledImage]}
    /\ \E h \in {NoContainer, CreatedRunning, OrphanDir} :
          hostC = [n \in ContainerNames |-> IF n = "c1" THEN h ELSE NoContainer]
    /\ holder = "none"
    /\ waiters = <<>>
    /\ cpu = "none"
    /\ pc = [t \in Tasks |-> "idle"]
    /\ loc = [t \in Tasks |-> NoLoc]
    /\ clog = [t \in Tasks |-> <<>>]
    /\ result = [t \in Tasks |-> "none"]
    /\ last_reconciliation = 0
    /\ container_states = [n \in ContainerNames |-> UNKNOWN]
    /\ faults = 0
    /\ loads = 0

EIdle ==
    /\ images = TheImages
    /\ containers = <<>>
    /\ hostI = [n \in ImageNames |-> NoImage]
    /\ hostC = [n \in ContainerNames |-> NoContainer]
    /\ holder = "none"
    /\ waiters = <<>>
    /\ cpu = "none"
    /\ pc = [t \in Tasks |-> "idle"]
    /\ loc = [t \in Tasks |-> NoLoc]
    /\ clog = [t \in Tasks |-> <<>>]
    /\ result = [t \in Tasks |-> "none"]
    /\ last_reconciliation = 0
    /\ container_states = [n \in ContainerNames |-> UNKNOWN]
    /\ faults = 0
    /\ loads = 0

(***************************************************************************)
(* Control transfer of a task.                                             *)
(***************************************************************************)
\* suspend at an await on a provider call
Suspend(t, p, l, call) ==
    /\ pc' = [pc EXCEPT ![t] = p]
    /\ loc' = [loc EXCEPT ![t] = l]
    /\ clog' = [clog EXCEPT ![t] = Append(@, call)]
    /\ cpu' = "none"
    /\ UNCHANGED <<holder, result, last_reconciliation>>

\* keep running synchronous code
Continue(t, p, l) ==
    /\ pc' = [pc EXCEPT ![t] = p]
    /\ loc' = [loc EXCEPT ![t] = l]
    /\ cpu' = t
    /\ UNCHANGED <<holder, result, clog, last_reconciliation>>

NextItem(t) == [loc[t] EXCEPT !.idx = @ + 1]

\* an exception leaves reconcile(): `async with` releases the lock
Abort(t) ==
    /\ holder' = "none"
    /\ result' = [result EXCEPT ![t] = "raise"]
    /\ pc' = [pc EXCEPT ![t] = "done"]
    /\ cpu' = "none"
    /\ UNCHANGED <<loc, clog, last_reconciliation>>

\* the pass ran to its end: timestamp, then the lock is released
Complete(t) ==
    /\ last_reconciliation' = last_reconciliation + 1
    /\ holder' = "none"
    /\ result' = [result EXCEPT ![t] = "ok"]
    /\ pc' = [pc EXCEPT ![t] = "done"]
    /\ cpu' = "none"
    /\ UNCHANGED <<loc, clog>>

\* an imperative operator returns or raises
Return(t, res) ==
    /\ result' = [result EXCEPT ![t] = res]
    /\ pc' = [pc EXCEPT ![t] = "done"]
    /\ cpu' = "none"
    /\ UNCHANGED <<holder, loc, clog, last_reconciliation>>

\* an exception of a provider call leaves reconcile() too
ItemDone_raising(t, loop, ok) ==
    IF ok THEN Continue(t, loop, NextItem(t)) ELSE Abort(t)

\* `except Exception` around each resource: the error is logged and the loop
\* goes on with the next resource
ItemDone(t, loop, ok) == Continue(t, loop, NextItem(t))

Outcome(r) == IF r.ok THEN "ok" ELSE "raise"

(***************************************************************************)
(* StateEngine.reconcile                                                   *)
(***************************************************************************)
EnterPass(t) ==
    /\ holder' = t
    /\ pc' = [pc EXCEPT ![t] = "img_loop"]
    /\ loc' = [loc EXCEPT ![t] = [NoLoc EXCEPT !.n = Len(images)]]
    /\ cpu' = t

Invoke(t) ==
    /\ cpu = "none" /\ pc[t] = "idle"
    /\ IF CanAcquire
       THEN EnterPass(t) /\ UNCHANGED waiters
       ELSE /\ waiters' = Append(waiters, t)
            /\ pc' = [pc EXCEPT ![t] = "wait_lock"]
            /\ UNCHANGED <<holder, loc, cpu>>
    /\ UNCHANGED <<pvars, xvars, catalog, host, clog, result, last_reconciliation,
                   container_states, faults, loads>>

Wake(t) ==
    /\ cpu = "none" /\ pc[t] = "wait_lock" /\ Woken(t)
    /\ waiters' = Tail(waiters)
    /\ EnterPass(t)
    /\ UNCHANGED <<pvars, xvars, catalog, host, clog, result, last_reconciliation,
                   container_states, faults, loads>>

ImagesFinished_early(idx, n) == idx >= 1

ImagesFinished(idx, n) == idx = n

\* `for name, spec in self.config_manager.images.items()`: a dict whose size
\* changed since the loop began raises RuntimeError
ImgLoop(t) ==
    /\ cpu = t /\ pc[t] = "img_loop"
    /\ IF Len(images) # loc[t].n THEN Abort(t)
       ELSE IF ImagesFinished(loc[t].idx, loc[t].n)
            THEN Continue(t, "cont_loop",
                          [loc[t] EXCEPT !.idx = 0, !.n = Len(containers)])
       ELSE LET img == images[loc[t].idx + 1]
            IN  Suspend(t, "img_status", [loc[t] EXCEPT !.img = img],
                        <<"image", "status", img.name>>)
    /\ UNCHANGED <<pvars, xvars, catalog, host, waiters, container_states, faults, loads>>

ImgStatus(t, FS) ==
    /\ cpu = "none" /\ pc[t] = "img_status"
    /\ \E F \in FS :
         LET st == img_status(hostI[loc[t].img.name], F)
         IN  /\ MayFail(F, st = ERROR) /\ Spend(F)
             /\ IF st = ABSENT
                THEN Suspend(t, "img_present", loc[t],
                             <<"image", "present", loc[t].img.name>>)
                ELSE Continue(t, "img_loop", NextItem(t))
    /\ UNCHANGED <<pvars, xvars, catalog, host, waiters, container_states, loads>>

ImgPresent(t, FS) ==
    /\ cpu = "none" /\ pc[t] = "img_present"
    /\ \E F \in FS :
         LET r == img_present(hostI[loc[t].img.name], loc[t].img, F)
         IN  /\ MayFail(F, ~Clean(r, F)) /\ Spend(F)
             /\ hostI' = [hostI EXCEPT ![loc[t].img.name] = r.h]
             /\ ItemDone(t, "img_loop", r.ok)
    /\ UNCHANGED <<pvars, xvars, catalog, hostC, waiters, container_states, loads>>

ContLoop(t) ==
    /\ cpu = t /\ pc[t] = "cont_loop"
    /\ IF Len(containers) # loc[t].n THEN Abort(t) /\ UNCHANGED containers
       ELSE IF loc[t].idx = loc[t].n THEN Complete(t) /\ UNCHANGED containers
       ELSE LET spec == enrich_container_spec(containers[loc[t].idx + 1])
            IN  /\ containers' = [containers EXCEPT ![loc[t].idx + 1] = spec]
                /\ IF ~validate_spec(spec)
                   THEN Continue(t, "cont_loop", NextItem(t))
                   ELSE Suspend(t, "c_status", [loc[t] EXCEPT !.spec = spec],
                                <<"container", "status", spec.name>>)
    /\ UNCHANGED <<pvars, xvars, images, host, waiters, container_states, faults, loads>>

CStatus(t, FS) ==
    /\ cpu = "none" /\ pc[t] = "c_status"
    /\ \E F \in FS :
         LET spec == loc[t].spec
             st == status(hostC[spec.name], spec, F).res
         IN  /\ MayFail(F, st = ERROR) /\ Spend(F)
             /\ container_states' = [container_states EXCEPT ![spec.name] = st]
             /\ IF spec.ensure = "present" /\ st = ABSENT
                THEN Suspend(t, "c_present", loc[t], <<"container", "present", spec.name>>)
                ELSE IF spec.ensure = "present" /\ st = PRESENT
                THEN Suspend(t, "c_is_running", loc[t],
                             <<"container", "is_running", spec.name>>)
                ELSE IF spec.ensure = "absent" /\ st = PRESENT
                THEN Suspend(t, "c_absent", loc[t], <<"container", "absent", spec.name>>)
                ELSE Continue(t, "cont_loop", NextItem(t))
    /\ UNCHANGED <<pvars, xvars, catalog, host, waiters, loads>>

\* a provider call of the pass returns or raises: either way the loop goes on
CMutate(t, F, r) ==
    /\ cpu = "none"
    /\ MayFail(F, ~Clean(r, F)) /\ Spend(F)
    /\ hostC' = [hostC EXCEPT ![loc[t].spec.name] = r.h]
    /\ ItemDone(t, "cont_loop", r.ok)
    /\ UNCHANGED <<pvars, xvars, catalog, hostI, waiters, container_states, loads>>

provider_start(h, spec, F) == start(Run(h), F)

provider_stop(h, spec, F) == stop(Run(h), F)

CPresent(t, FS) ==
    /\ pc[t] = "c_present"
    /\ \E F \in FS : CMutate(t, F, present(hostC[loc[t].spec.name], loc[t].spec, F))

CAbsent(t, FS) ==
    /\ pc[t] = "c_absent"
    /\ \E F \in FS : CMutate(t, F, absent(hostC[loc[t].spec.name], loc[t].spec, F))

CStart(t, FS) ==
    /\ pc[t] = "c_start"
    /\ \E F \in FS :
         CMutate(t, F, provider_start(hostC[loc[t].spec.name], loc[t].spec, F))

CStop(t, FS) ==
    /\ pc[t] = "c_stop"
    /\ \E F \in FS :
         CMutate(t, F, provider_stop(hostC[loc[t].spec.name], loc[t].spec, F))

\* _ensure_container_state
CIsRunning(t, FS) ==
    /\ cpu = "none" /\ pc[t] = "c_is_running"
    /\ \E F \in FS :
         LET spec == loc[t].spec
             running == is_running(Run(hostC[spec.name]), F)
         IN  /\ MayFail(F, "get_unit_state" \in F) /\ Spend(F)
             /\ IF spec.state = "running" /\ ~running
                THEN Suspend(t, "c_start", loc[t], <<"container", "start", spec.name>>)
                ELSE IF spec.state = "stopped" /\ running
                THEN Suspend(t, "c_stop", loc[t], <<"container", "stop", spec.name>>)
                ELSE Continue(t, "cont_loop", NextItem(t))
    /\ UNCHANGED <<pvars, xvars, catalog, host, waiters, container_states, loads>>

(***************************************************************************)
(* Imperative operators: create_container, start_container,                *)
(* stop_container, remove_container, execute_in_container.  None of them   *)
(* takes the lock.                                                         *)
(***************************************************************************)
ApiOps == {"create", "start", "stop", "remove", "exec"}

ApiNames == {"c1", "nope"}

ApiCall(op) == CASE op = "create" -> "present" [] op = "start" -> "start"
                 [] op = "stop" -> "stop" [] OTHER -> "absent"

\* an imperative operator raises before its first provider call
ApiRaise(l) ==
    /\ result' = [result EXCEPT !["api"] = "raise"]
    /\ pc' = [pc EXCEPT !["api"] = "done"]
    /\ loc' = [loc EXCEPT !["api"] = l]
    /\ cpu' = "none"
    /\ UNCHANGED <<holder, clog, last_reconciliation>>

needs_pull_never(image_status) == FALSE

\* create_container: `if image_status != ProviderStatus.PRESENT`
needs_pull(image_status) == image_status # PRESENT

ApiInvoke(op, name) ==
    /\ cpu = "none" /\ pc["api"] = "idle"
    /\ IF ~HasContainer(name)
       THEN /\ ApiRaise([NoLoc EXCEPT !.op = op, !.name = name])
            /\ UNCHANGED containers
       ELSE LET spec == enrich_container_spec(get_container_spec(name))
                l == [NoLoc EXCEPT !.spec = spec, !.op = op, !.name = name,
                                   !.img = spec.image_spec]
            IN  /\ containers' = [containers EXCEPT ![IndexOf(name)] = spec]
                /\ IF op \in {"create", "start"} /\ ~validate_spec(spec)
                   THEN ApiRaise(l)
                   ELSE IF op = "create" /\ spec.image_spec.some
                   THEN Suspend("api", "a_img_status", l,
                                <<"image", "status", spec.image_spec.name>>)
                   ELSE IF op = "exec"
                   THEN Suspend("api", "a_status", l, <<"container", "status", name>>)
                   ELSE Suspend("api", "a_" \o ApiCall(op), l,
                                <<"container", ApiCall(op), name>>)
    /\ UNCHANGED <<pvars, xvars, images, host, waiters, container_states, faults, loads>>

AImgStatus(FS) ==
    /\ cpu = "none" /\ pc["api"] = "a_img_status"
    /\ \E F \in FS :
         LET st == img_status(hostI[loc["api"].img.name], F)
         IN  /\ MayFail(F, st = ERROR) /\ Spend(F)
             /\ IF needs_pull(st)
                THEN Suspend("api", "a_img_present", loc["api"],
                             <<"image", "present", loc["api"].img.name>>)
                ELSE Suspend("api", "a_present", loc["api"],
                             <<"container", "present", loc["api"].name>>)
    /\ UNCHANGED <<pvars, xvars, catalog, host, waiters, container_states, loads>>

AImgPresent(FS) ==
    /\ cpu = "none" /\ pc["api"] = "a_img_present"
    /\ \E F \in FS :
         LET r == img_present(hostI[loc["api"].img.name], loc["api"].img, F)
         IN  /\ MayFail(F, ~Clean(r, F)) /\ Spend(F)
             /\ hostI' = [hostI EXCEPT ![loc["api"].img.name] = r.h]
             /\ IF r.ok
                THEN Suspend("api", "a_present", loc["api"],
                             <<"container", "present", loc["api"].name>>)
                ELSE Return("api", "raise")
    /\ UNCHANGED <<pvars, xvars, catalog, hostC, waiters, container_states, loads>>

AMutate(F, r) ==
    /\ cpu = "none"
    /\ MayFail(F, ~Clean(r, F)) /\ Spend(F)
    /\ hostC' = [hostC EXCEPT ![loc["api"].name] = r.h]
    /\ Return("api", Outcome(r))
    /\ UNCHANGED <<pvars, xvars, catalog, hostI, waiters, container_states, loads>>

APresent(FS) ==
    /\ pc["api"] = "a_present"
    /\ \E F \in FS : AMutate(F, present(hostC[loc["api"].name], loc["api"].spec, F))

AStart(FS) ==
    /\ pc["api"] = "a_start"
    /\ \E F \in FS :
         AMutate(F, provider_start(hostC[loc["api"].name], loc["api"].spec, F))

AStop(FS) ==
    /\ pc["api"] = "a_stop"
    /\ \E F \in FS :
         AMutate(F, provider_stop(hostC[loc["api"].name], loc["api"].spec, F))

AAbsent(FS) ==
    /\ pc["api"] = "a_absent"
    /\ \E F \in FS : AMutate(F, absent(hostC[loc["api"].name], loc["api"].spec, F))

\* ContainerProvider.execute: `machinectl shell`; a non-zero exit is caught and
\* returned as exit_code
execute(h, spec, F) == ExecLogged(Run(h), "shell", F, h)

\* execute_in_container: `status != PRESENT` raises
AStatus(FS) ==
    /\ cpu = "none" /\ pc["api"] = "a_status"
    /\ \E F \in FS :
         LET st == status(hostC[loc["api"].name], loc["api"].spec, F).res
         IN  /\ MayFail(F, st = ERROR) /\ Spend(F)
             /\ IF st # PRESENT
                THEN Return("api", "raise")
                ELSE Suspend("api", "a_is_running", loc["api"],
                             <<"container", "is_running", loc["api"].name>>)
    /\ UNCHANGED <<pvars, xvars, catalog, host, waiters, container_states, loads>>

\* execute_in_container: `not is_running` raises
AIsRunning(FS) ==
    /\ cpu = "none" /\ pc["api"] = "a_is_running"
    /\ \E F \in FS :
         LET running == is_running(Run(hostC[loc["api"].name]), F)
         IN  /\ MayFail(F, "get_unit_state" \in F) /\ Spend(F)
             /\ IF ~running
                THEN Return("api", "raise")
                ELSE Suspend("api", "a_execute", loc["api"],
                             <<"container", "execute", loc["api"].name>>)
    /\ UNCHANGED <<pvars, xvars, catalog, host, waiters, container_states, loads>>

AExecute(FS) ==
    /\ pc["api"] = "a_execute"
    /\ \E F \in FS :
         LET r == execute(hostC[loc["api"].name], loc["api"].spec, F)
         IN  /\ cpu = "none"
             /\ MayFail(F, "shell" \in F) /\ Spend(F)
             /\ hostC' = [hostC EXCEPT ![loc["api"].name] = r.h]
             /\ Return("api", Outcome(r))
             /\ UNCHANGED <<pvars, xvars, catalog, hostI, waiters, container_states,
                            loads>>

(***************************************************************************)
(* Control plane.  IPCServer (agent/ipc.py) is the server AgentService     *)
(* starts; AgentServer (agent/server.py) is the HTTP/WebSocket server.     *)
(***************************************************************************)
IPC_PRIVILEGED_COMMANDS ==
    {"spawn", "stop", "start", "remove", "exec", "reconcile", "reload", "image_pull"}

IpcHandlers ==
    {"status", "list", "spawn", "stop", "start", "remove", "exec", "reconcile",
     "reload", "image_pull", "validate"}

HttpHandlers == IpcHandlers \cup {"restart"}

Commands == HttpHandlers \cup {"stream_exec", "stream_shell", "bogus"}

\* peercred as the server reads it: absent, or (pid, uid, gid)
NoCreds == [known |-> FALSE, uid |-> 0]

Creds == {NoCreds, [known |-> TRUE, uid |-> 0], [known |-> TRUE, uid |-> 1000]}

\* `client_uid != 0`, client_uid being None when the credentials are absent
IsRoot(creds) == creds.known /\ creds.uid = 0

NoRequest == [server |-> "none", route |-> "", command |-> "", creds |-> NoCreds,
              body |-> "", valid |-> FALSE]

\* `code` is the HTTP status of the response; 0 where there is none (the IPC
\* socket carries bare JSON lines)
NoResponse == [sent |-> FALSE, success |-> FALSE, error |-> "", code |-> 0]

Failure(msg) == [sent |-> TRUE, success |-> FALSE, error |-> msg, code |-> 0]

Success == [sent |-> TRUE, success |-> TRUE, error |-> "", code |-> 0]

PermissionDenied == "Permission denied: Root privileges required"

UnknownCommand == "Unknown command"

HandlerError == "handler error"

ParseError == "parse error"

\* the request bodies a client can post: a JSON object, or bytes request.json()
\* raises on
Bodies == {"object", "unparsable"}

\* web.json_response(envelope, status): 200 from the `try` body, 500 from the
\* `except Exception` branch.  (json_response_ok: every envelope sent with 200.)
json_response_ok(envelope) == [envelope EXCEPT !.code = 200]

json_response(envelope) ==
    [envelope EXCEPT !.code = IF envelope.success THEN 200 ELSE 500]

\* IPCServer._handle_client and _process_request; `ok` is whether the handler
\* returns (TRUE) or raises
IpcRequest ==
    \E command \in Commands, creds \in Creds, ok \in BOOLEAN :
       /\ request' = [server |-> "ipc", route |-> "socket", command |-> command,
                      creds |-> creds, body |-> "object", valid |-> ok]
       /\ IF command \in IPC_PRIVILEGED_COMMANDS /\ ~IsRoot(creds)
          THEN response' = Failure(PermissionDenied) /\ handled' = "none"
          ELSE IF command \notin IpcHandlers
          THEN response' = Failure(UnknownCommand) /\ handled' = "none"
          ELSE /\ handled' = command
               \* _handle_validate catches every exception itself
               /\ response' = IF ok \/ command = "validate" THEN Success
                              ELSE Failure(HandlerError)
       /\ UNCHANGED <<pvars, evars, ovars, mvars, svars>>

\* AgentServer._handle_command and _process_command: POST /api/v1/command;
\* `ok` is whether the handler returns (TRUE) or raises
HttpCommand ==
    \E command \in Commands, creds \in Creds, ok \in BOOLEAN, body \in Bodies :
       /\ request' = [server |-> "http", route |-> "command", command |-> command,
                      creds |-> creds, body |-> body, valid |-> ok]
       /\ IF body = "unparsable"
          THEN response' = json_response(Failure(ParseError)) /\ handled' = "none"
          ELSE IF command \notin HttpHandlers
          THEN /\ response' = json_response(Failure(UnknownCommand))
               /\ handled' = "none"
          ELSE /\ handled' = command
               \* StateEngine has no restart_container: _handle_restart raises
               /\ response' = IF ok /\ command # "restart"
                              THEN json_response(Success)
                              ELSE json_response(Failure(HandlerError))
       /\ UNCHANGED <<pvars, evars, ovars, mvars, svars>>

\* AgentServer._handle_stream_exec / _handle_stream_shell: the WebSocket is
\* accepted (101 Switching Protocols) and the stream handler runs
HttpStream ==
    \E command \in {"stream_exec", "stream_shell"}, creds \in Creds :
       /\ request' = [server |-> "http", route |-> "stream", command |-> command,
                      creds |-> creds, body |-> "", valid |-> TRUE]
       /\ response' = [Success EXCEPT !.code = 101]
       /\ handled' = command
       /\ UNCHANGED <<pvars, evars, ovars, mvars, svars>>

(***************************************************************************)
(* Cloud-init template resolution (ConfigManager._load_containers).  A     *)
(* YAML mapping is a function from its keys to values; a value is a scalar *)
(* or a mapping.                                                           *)
(***************************************************************************)
EmptyDict == [k \in {} |-> 0]

Scalar(v) == [kind |-> "scalar", s |-> v, m |-> EmptyDict]

Mapping(d) == [kind |-> "mapping", s |-> "", m |-> d]

\* dict.update
update(base, other) ==
    [k \in DOMAIN base \cup DOMAIN other |->
        IF k \in DOMAIN other THEN other[k] ELSE base[k]]

\* the merge of a container's cloud_init with the template it names
resolve_template(templates, spec_ci) ==
    IF DOMAIN spec_ci # {} /\ "template" \in DOMAIN spec_ci
       /\ spec_ci["template"].s \in DOMAIN templates
    THEN update(templates[spec_ci["template"].s], spec_ci)
    ELSE spec_ci

NoneValue == "None"

\* CloudInitSpec(**d): absent fields get their defaults
CloudInitSpec(d) ==
    [meta_data |-> IF "meta_data" \in DOMAIN d THEN d["meta_data"].m ELSE EmptyDict,
     user_data |-> IF "user_data" \in DOMAIN d THEN d["user_data"].s ELSE NoneValue,
     template  |-> IF "template" \in DOMAIN d THEN d["template"].s ELSE NoneValue]

NotLoaded == [meta_data |-> EmptyDict, user_data |-> "", template |-> ""]

\* optional entry of a mapping
Opt(k, vals) == {EmptyDict} \cup {k :> v : v \in vals}

TemplateMetas ==
    { a @@ b : a \in Opt("base_key", {Scalar("base_value")}),
               b \in Opt("nested", {Scalar("flat"), Mapping("a" :> Scalar("1")),
                                    Mapping(("a" :> Scalar("1")) @@ ("b" :> Scalar("1")))}) }

OverrideMetas ==
    { a @@ b : a \in Opt("override_key", {Scalar("override_value")}),
               b \in Opt("nested", {Scalar("flat2"), Mapping("b" :> Scalar("2")),
                                    Mapping("a" :> Scalar("2"))}) }

TemplateBodies ==
    { m @@ u : m \in Opt("meta_data", {Mapping(x) : x \in TemplateMetas}),
               u \in Opt("user_data", {Scalar("#cloud-config")}) }

NodeCloudInits ==
    { t @@ m @@ u : t \in Opt("template", {Scalar("base_template"), Scalar("ghost")}),
                    m \in Opt("meta_data", {Mapping(x) : x \in OverrideMetas}),
                    u \in Opt("user_data", {Scalar("#override")}) }

MInit ==
    /\ cloud_init_templates \in {"base_template" :> b : b \in TemplateBodies}
    /\ node_cloud_init \in NodeCloudInits
    /\ cloud_init = NotLoaded

LoadContainer ==
    /\ cloud_init = NotLoaded
    /\ cloud_init' = CloudInitSpec(resolve_template(cloud_init_templates, node_cloud_init))
    /\ UNCHANGED <<pvars, evars, ovars, cvars, svars, cloud_init_templates, node_cloud_init>>

CIdle == request = NoRequest /\ response = NoResponse /\ handled = "none"

MIdle ==
    /\ cloud_init_templates = EmptyDict
    /\ node_cloud_init = EmptyDict
    /\ cloud_init = NotLoaded

(***************************************************************************)
(* Streaming session (AgentServer._handle_stream).  A frame is what        *)
(* `async for msg in ws` yields: a binary frame, a text frame, or an       *)
(* error.  The end of the inbox is the client closing the socket.          *)
(***************************************************************************)
MaxFrames == 3

DefaultRows == 24

DefaultCols == 80

USHORT_MAX == 65535

\* a value of a JSON object under "rows" / "cols"
AbsentSize == [k |-> "absent", v |-> 0]

IntSize(n) == [k |-> "int", v |-> n]

OtherSize == [k |-> "other", v |-> 0]

Binary(d) == [kind |-> "binary", data |-> d, json |-> "", type |-> "",
              rows |-> AbsentSize, cols |-> AbsentSize]

Text(j, t, rows, cols) == [kind |-> "text", data |-> "", json |-> j, type |-> t,
                           rows |-> rows, cols |-> cols]

ErrorFrame == [kind |-> "error", data |-> "", json |-> "", type |-> "",
               rows |-> AbsentSize, cols |-> AbsentSize]

\* the close message that ends `async for msg in ws`
CloseFrame == [kind |-> "close", data |-> "", json |-> "", type |-> "",
               rows |-> AbsentSize, cols |-> AbsentSize]

Frames ==
    { Binary("ls"), Binary("pwd"), ErrorFrame,
      Text("object", "resize", IntSize(40), IntSize(100)),
      Text("object", "resize", IntSize(50), IntSize(120)),
      Text("invalid", "", AbsentSize, AbsentSize),
      Text("array", "", AbsentSize, AbsentSize),
      Text("object", "ping", IntSize(40), IntSize(100)),
      Text("object", "resize", IntSize(USHORT_MAX + 1), IntSize(100)),
      Text("object", "resize", IntSize(40), OtherSize),
      Text("object", "resize", IntSize(40), AbsentSize) }

RECURSIVE FrameSeqs(_)
FrameSeqs(n) ==
    IF n = 0 THEN {<<>>}
    ELSE FrameSeqs(n - 1) \cup
         {Append(q, f) : q \in {x \in FrameSeqs(n - 1) : Len(x) = n - 1}, f \in Frames}

\* struct.pack("H", x) accepts an integer in 0..65535
Packable(size) == size.k = "int" /\ size.v >= 0 /\ size.v <= USHORT_MAX

handle_text_swapped(ws, f) ==
    IF f.json # "object" \/ f.type # "resize" THEN ws
    ELSE LET rows == IF f.rows.k = "absent" THEN IntSize(DefaultRows) ELSE f.rows
             cols == IF f.cols.k = "absent" THEN IntSize(DefaultCols) ELSE f.cols
         IN  IF Packable(rows) /\ Packable(cols)
             THEN [rows |-> cols.v, cols |-> rows.v] ELSE ws

\* the TEXT branch of pump_write: json.loads, data.get("type"), struct.pack and
\* ioctl run inside `try ... except Exception`, which only logs
handle_text(ws, f) ==
    IF f.json # "object" \/ f.type # "resize" THEN ws
    ELSE LET rows == IF f.rows.k = "absent" THEN IntSize(DefaultRows) ELSE f.rows
             cols == IF f.cols.k = "absent" THEN IntSize(DefaultCols) ELSE f.cols
         IN  IF Packable(rows) /\ Packable(cols)
             THEN [rows |-> rows.v, cols |-> cols.v] ELSE ws

NoWinsize == [rows |-> 0, cols |-> 0]

cancel_nothing(task) == task

\* task.cancel() on a pending task
cancel(task) == IF task = "running" THEN "cancelled" ELSE task

SIdle ==
    /\ inbox = <<>> /\ processed = <<>> /\ pty_in = <<>> /\ winsize = NoWinsize
    /\ master = "none" /\ slave = "none" /\ child = "none"
    /\ read_task = "none" /\ write_task = "none" /\ handler = "idle"

SInit ==
    /\ inbox \in FrameSeqs(MaxFrames)
    /\ processed = <<>> /\ pty_in = <<>> /\ winsize = NoWinsize
    /\ master = "none" /\ slave = "none" /\ child = "none"
    /\ read_task = "none" /\ write_task = "none" /\ handler = "idle"

\* the handler up to `await asyncio.wait(...)`: no name, the spawn raising, or
\* both pumps started
SOpen ==
    /\ handler = "idle"
    /\ \E named \in BOOLEAN, spawned \in BOOLEAN :
         IF ~named
         THEN handler' = "returned" /\ UNCHANGED <<master, slave, child, read_task, write_task>>
         ELSE /\ master' = "open"
              /\ slave' = "closed"
              /\ IF spawned
                 THEN /\ child' = "running"
                      /\ read_task' = "running" /\ write_task' = "running"
                      /\ handler' = "waiting"
                 ELSE handler' = "raised" /\ UNCHANGED <<child, read_task, write_task>>
    /\ UNCHANGED <<pvars, evars, ovars, cvars, mvars, inbox, processed, pty_in, winsize>>

\* pump_write: one message of `async for msg in ws`
SFrame ==
    /\ write_task = "running" /\ inbox # <<>>
    /\ LET f == Head(inbox)
       IN  /\ inbox' = Tail(inbox)
           /\ processed' = Append(processed, f)
           /\ pty_in' = IF f.kind = "binary" THEN Append(pty_in, f.data) ELSE pty_in
           /\ winsize' = IF f.kind = "text" THEN handle_text(winsize, f) ELSE winsize
           /\ write_task' = IF f.kind = "error" THEN "done" ELSE write_task
    /\ UNCHANGED <<pvars, evars, ovars, cvars, mvars, master, slave, child, read_task, handler>>

\* pump_write: the client closed the socket, the iteration ends
SClientClose ==
    /\ write_task = "running" /\ inbox = <<>>
    /\ processed' = Append(processed, CloseFrame)
    /\ write_task' = "done"
    /\ UNCHANGED <<pvars, evars, ovars, cvars, mvars, inbox, pty_in, winsize,
                   master, slave, child, read_task, handler>>

\* the shell exits by itself
SChildExit ==
    /\ child = "running" /\ handler = "waiting"
    /\ child' = "exited"
    /\ UNCHANGED <<pvars, evars, ovars, cvars, mvars, inbox, processed, pty_in, winsize,
                   master, slave, read_task, write_task, handler>>

\* pump_read: os.read returns b"" or raises OSError once the child is gone, or
\* ws.send_bytes raises once the client is gone
SReadEnds ==
    /\ read_task = "running"
    /\ child # "running" \/ write_task = "done"
    /\ read_task' = "done"
    /\ UNCHANGED <<pvars, evars, ovars, cvars, mvars, inbox, processed, pty_in, winsize,
                   master, slave, child, write_task, handler>>

\* a cancelled pump gets its CancelledError, which it swallows
SCancelled ==
    /\ read_task = "cancelled" \/ write_task = "cancelled"
    /\ read_task' = IF read_task = "cancelled" THEN "done" ELSE read_task
    /\ write_task' = IF write_task = "cancelled" THEN "done" ELSE write_task
    /\ UNCHANGED <<pvars, evars, ovars, cvars, mvars, inbox, processed, pty_in, winsize,
                   master, slave, child, handler>>

\* asyncio.wait returns: cancel what is pending, terminate the child; a child
\* already reaped makes terminate() raise ProcessLookupError, which skips the
\* wait
SFirstCompleted ==
    /\ handler = "waiting"
    /\ read_task = "done" \/ write_task = "done"
    /\ read_task' = cancel(read_task)
    /\ write_task' = cancel(write_task)
    /\ \E reaped \in BOOLEAN :
         IF child = "exited" /\ reaped
         THEN child' = "reaped" /\ master' = "closed" /\ handler' = "returned"
         ELSE handler' = "reaping" /\ UNCHANGED <<child, master>>
    /\ UNCHANGED <<pvars, evars, ovars, cvars, mvars, inbox, processed, pty_in, winsize, slave>>

\* `await proc.wait()` returns, then os.close(master)
SReaped ==
    /\ handler = "reaping"
    /\ child' = "reaped"
    /\ master' = "closed"
    /\ handler' = "returned"
    /\ UNCHANGED <<pvars, evars, ovars, cvars, mvars, inbox, processed, pty_in, winsize,
                   slave, read_task, write_task>>

(***************************************************************************)
(* Host driver (utils/systemd.py).  SystemdDBus tries the bus when it is   *)
(* connected and runs systemctl from the `except` branch of the bus call,  *)
(* or at once when there is no connection.                                 *)
(***************************************************************************)
UnitNames == {"systemd-nspawn@c1.service", "systemd-nspawn@c2.service"}

DriverOps == {"reload_daemon", "start_unit", "stop_unit", "enable_unit",
              "disable_unit", "get_unit_state"}

\* how a bus call ends, and how a systemctl run ends: exit status 0, a
\* non-zero exit status, or no process at all (create_subprocess_exec raises)
BusOutcomes == {"ok", "raise"}

CliOutcomes == {"ok", "nonzero", "oserror"}

NoUnitCall == [op |-> "none", unit |-> "", connected |-> FALSE, bus |-> "none",
               cli |-> "none", cli_runs |-> 0, result |-> "none", error |-> "",
               value |-> ""]

\* what the operation does to the unit once the bus call or systemctl succeeds
unit_effect(op, u) ==
    CASE op = "start_unit"   -> [u EXCEPT !.active = TRUE]
      [] op = "stop_unit"    -> [u EXCEPT !.active = FALSE]
      [] op = "enable_unit"  -> [u EXCEPT !.enabled = TRUE]
      [] op = "disable_unit" -> [u EXCEPT !.enabled = FALSE]
      [] OTHER -> u

ActiveState(u) == IF u.active THEN "active" ELSE "inactive"

\* run_command(cmd) with check=True raises CalledProcessError on a non-zero
\* exit; get_unit_state passes check=False and returns stdout whatever the exit
\* status ("unknown" stands for what systemctl prints when it cannot tell)
run_command(op, cli) ==
    IF cli = "oserror" THEN [ok |-> FALSE, error |-> "OSError", value |-> ""]
    ELSE IF op = "get_unit_state"
    THEN [ok |-> TRUE, error |-> "", value |-> IF cli = "ok" THEN "state" ELSE "unknown"]
    ELSE IF cli = "nonzero"
    THEN [ok |-> FALSE, error |-> "CalledProcessError", value |-> ""]
    ELSE [ok |-> TRUE, error |-> "", value |-> ""]

\* the error a caller sees when systemctl fails in the `except` branch of the
\* failed bus call: the exception raised there (the bus error is its __context__)
fallback_error(bus_error, cli_error) == cli_error

\* one SystemdDBus call; the answer [ok, error, value, cli_runs, acted]
driver_call(op, connected, bus, cli) ==
    LET c == run_command(op, cli)
    IN  IF connected /\ bus = "ok"
        THEN [ok |-> TRUE, error |-> "", value |-> "state", cli_runs |-> 0, acted |-> TRUE]
        ELSE IF ~connected /\ op = "reload_daemon"
        \* `if self.systemd:` has no else branch in reload_daemon
        THEN [ok |-> TRUE, error |-> "", value |-> "", cli_runs |-> 0, acted |-> FALSE]
        ELSE [ok |-> c.ok,
              error |-> IF c.ok THEN ""
                        ELSE IF connected THEN fallback_error("DBusError", c.error)
                        ELSE c.error,
              value |-> c.value, cli_runs |-> 1,
              acted |-> c.ok /\ (op # "get_unit_state" => cli = "ok")]

DriverCall ==
    \E op \in DriverOps, unit \in UnitNames, connected \in BOOLEAN,
       bus \in BusOutcomes, cli \in CliOutcomes :
       LET a == driver_call(op, connected, bus, cli)
       IN  /\ units' = IF a.acted THEN [units EXCEPT ![unit] = unit_effect(op, @)]
                       ELSE units
           /\ unit_call' = [op |-> op, unit |-> unit, connected |-> connected,
                            bus |-> IF connected THEN bus ELSE "none",
                            cli |-> IF a.cli_runs = 1 THEN cli ELSE "none",
                            cli_runs |-> a.cli_runs,
                            result |-> IF a.ok THEN "ok" ELSE "raise",
                            error |-> a.error,
                            value |-> IF op # "get_unit_state" THEN ""
                                      ELSE IF a.value = "state"
                                      THEN ActiveState(units[unit]) ELSE a.value]
           /\ UNCHANGED <<pvars, evars, cvars, mvars, svars, avars, rvars, vvars, zvars>>

DIdle ==
    /\ units = [u \in UnitNames |-> [active |-> FALSE, enabled |-> FALSE]]
    /\ unit_call = NoUnitCall

(***************************************************************************)
(* ChimeraAgent (agent/main.py) after initialize(): nothing is started.    *)
(***************************************************************************)
AgentTasks == {"server", "loop", "watcher"}

NoServer == [listening |-> FALSE, socket |-> FALSE]

AIdle ==
    /\ shutdown_event = FALSE
    /\ run_pc = "new"
    /\ tasks = [a \in AgentTasks |-> "none"]
    /\ server = NoServer
    /\ last_load = "none"
    /\ scheduled = 0
    /\ oc_started = 0
    /\ passes = 0

(***************************************************************************)
(* ProviderRegistry (providers/registry.py)                                *)
(***************************************************************************)
Production ==
    << [name |-> "image",     class |-> "ImageProvider"],
       [name |-> "container", class |-> "ContainerProvider"],
       [name |-> "cloudinit", class |-> "CloudInitProvider"],
       [name |-> "profile",   class |-> "ProfileProvider"] >>

ProviderNames == {"image", "container", "cloudinit", "profile", "mock", "mock1", "mock2"}

NoLookup == [name |-> "", result |-> "None"]

RIdle ==
    /\ provider_classes = Production
    /\ providers = <<>>
    /\ init_calls = [n \in ProviderNames |-> 0]
    /\ cloudinit_ref = "None"
    /\ reg_pc = "new"
    /\ reg_i = 1
    /\ lookup = NoLookup

NoValidation == [server |-> "none", outcome |-> "none", error |-> "", counted |-> FALSE,
                 images |-> 0, containers |-> 0, calls |-> <<>>]

VIdle == validation = NoValidation

NoExec == [cmd |-> <<>>, run |-> "none", outcome |-> "none", exit_code |-> 0]

QIdle == argv = <<>> /\ exec_call = NoExec

NoImageSpec == [name |-> "", type |-> "tar", verify |-> "signature"]

NoImageCall == [op |-> "none", res |-> "none", log |-> <<>>, pull |-> <<>>,
                before |-> [present |-> FALSE, readonly |-> FALSE],
                status |-> "none", F |-> {}]

IIdle == iSpec = NoImageSpec /\ iHost = [present |-> FALSE, readonly |-> FALSE]
         /\ iLast = NoImageCall

NoStart == [pc |-> "idle", running |-> FALSE, i |-> 0, start_units |-> 0, probes |-> 0,
            sleeps |-> 0, last |-> "none", all_raised |-> TRUE]

WIdle == ready = NoStart

ZIdle == QIdle /\ IIdle /\ WIdle

OIdle == DIdle /\ AIdle /\ RIdle /\ VIdle /\ ZIdle

XIdle == CIdle /\ MIdle /\ SIdle /\ OIdle

(***************************************************************************)
(* ConfigManager.load: what is on disk is read into the catalog.  A        *)
(* resource directory that does not exist leaves its dict as it was; one   *)
(* that exists has its dict cleared and filled with new objects.  load()   *)
(* never suspends, so it runs in one step.                                 *)
(***************************************************************************)
Missing == [exists |-> FALSE, items |-> <<>>]

OnDisk(items) == [exists |-> TRUE, items |-> items]

DiskImages == {Missing, OnDisk(TheImages), OnDisk(<<TheImages[2]>>)}

DiskNodes == {Missing, OnDisk(<<C2Spec>>)} \cup {OnDisk(c) : c \in Catalogs}

load_images(disk) == IF ~disk.exists THEN images ELSE disk.items

load_containers(disk) == IF ~disk.exists THEN containers ELSE disk.items

Load ==
    /\ cpu = "none" /\ loads < MaxLoads
    /\ loads' = loads + 1
    /\ \E main \in BOOLEAN, di \in DiskImages, dn \in DiskNodes :
         IF ~main THEN UNCHANGED catalog
         ELSE /\ images' = load_images(di)
              /\ containers' = load_containers(dn)
    /\ UNCHANGED <<pvars, xvars, host, holder, waiters, cpu, pc, loc, clog, result,
                   last_reconciliation, container_states, faults>>

(***************************************************************************)
(* SpecProvider: the container provider called directly, from any host     *)
(* state, with any spec; each call is one action.                          *)
(***************************************************************************)
FailPoints == {"show", "get_unit_state", "start_unit", "stop_unit", "probe",
               "write_nspawn", "write_override", "reload", "enable", "disable",
               "clone", "clone_partial", "cloudinit_prepare", "remove",
               "rmtree_dir", "unlink_raw", "unlink_nspawn", "rmtree_override"}

FaultSets == {{}} \cup {{f} : f \in FailPoints}

\* the specs the provider is called with: enriched ones of both image kinds,
\* and one that was never enriched (stop_container / remove_container do not
\* validate)
TestSpecs ==
    { [ContainerSpec("x", "img", "isolated", "present", st, auto, TRUE)
         EXCEPT !.image_spec = ImageSpec("img", t, TRUE),
                !.profile_spec = ProfileSpec("isolated", TRUE, TRUE)] :
        st \in {"running", "stopped"}, auto \in BOOLEAN, t \in {"tar", "raw"} }
    \cup {ContainerSpec("x", "img", "isolated", "present", "running", TRUE, FALSE)}

\* the unit a container runs as
service_name(spec) == "systemd-nspawn@" \o spec.name \o ".service"

NoCall == [op |-> "none", res |-> "none", log |-> <<>>, probes |-> 0, clean |-> TRUE,
           unit |-> ""]

\* unit: the unit name the call handed to get_unit_state / start_unit / stop_unit
Call(op, res, r, F) == [op |-> op, res |-> res, log |-> r.log, probes |-> r.probes,
                        clean |-> Clean(r, F),
                        unit |-> IF InLog("get_unit_state", r.log)
                                 THEN service_name(pSpec) ELSE ""]

Summary(c) == [op |-> c.op, res |-> c.res, clean |-> c.clean]

PIdle == /\ pSpec = ContainerSpec("x", "img", "isolated", "present", "running", TRUE, FALSE)
         /\ pHost = NoContainer
         /\ pBefore = NoContainer
         /\ pLast = NoCall
         /\ pPrev = Summary(NoCall)

PInit == /\ pSpec \in TestSpecs
         /\ pHost \in HostStates
         /\ pBefore = pHost
         /\ pLast = NoCall
         /\ pPrev = Summary(NoCall)

PDone(op, res, r, F) ==
    /\ pBefore' = pHost
    /\ pHost' = r.h
    /\ pPrev' = Summary(pLast)
    /\ pLast' = Call(op, res, r, F)
    /\ UNCHANGED <<pSpec, evars, xvars>>

PStatus == \E F \in FaultSets :
    LET st == status(pHost, pSpec, F)
    IN  PDone("status", st.res, [Run(st.h) EXCEPT !.log = st.log], F)

PPresent == \E F \in FaultSets :
    LET r == present(pHost, pSpec, F)
    IN  PDone("present", IF r.ok THEN "ok" ELSE "raise", r, F)

PAbsent == \E F \in FaultSets :
    LET r == absent(pHost, pSpec, F)
    IN  PDone("absent", IF r.ok THEN "ok" ELSE "raise", r, F)

PNext == PStatus \/ PPresent \/ PAbsent

InitProvider == PInit /\ EIdle /\ XIdle

(***************************************************************************)
(* SpecLifecycle: ContainerProvider.start and stop called directly.        *)
(***************************************************************************)
LifecycleFaults == {{}, {"get_unit_state"}, {"start_unit"}, {"stop_unit"}, {"probe"}}

PStart == \E F \in LifecycleFaults :
    LET r == start(Run(pHost), F)
    IN  PDone("start", IF r.ok THEN "ok" ELSE "raise", r, F)

PStop == \E F \in LifecycleFaults :
    LET r == stop(Run(pHost), F)
    IN  PDone("stop", IF r.ok THEN "ok" ELSE "raise", r, F)

NextLifecycle == PStart \/ PStop

SpecLifecycle == InitProvider /\ [][NextLifecycle]_vars

SpecProvider == InitProvider /\ [][PNext]_vars

(***************************************************************************)
(* Spec: two reconcile() invocations and one imperative operator, on a     *)
(* catalog that is not reloaded.                                           *)
(***************************************************************************)
Next ==
    \/ \E t \in Reconcilers :
          \/ Invoke(t) \/ Wake(t) \/ ImgLoop(t) \/ ContLoop(t)
          \/ ImgStatus(t, EngineFaults) \/ ImgPresent(t, EngineFaults)
          \/ CStatus(t, EngineFaults) \/ CPresent(t, EngineFaults)
          \/ CIsRunning(t, EngineFaults) \/ CStart(t, EngineFaults)
          \/ CStop(t, EngineFaults) \/ CAbsent(t, EngineFaults)
    \/ \E op \in ApiOps, name \in ApiNames : ApiInvoke(op, name)
    \/ AImgStatus(EngineFaults) \/ AImgPresent(EngineFaults) \/ APresent(EngineFaults)
    \/ AStart(EngineFaults) \/ AStop(EngineFaults) \/ AAbsent(EngineFaults)
    \/ AStatus(EngineFaults) \/ AIsRunning(EngineFaults) \/ AExecute(EngineFaults)

Init == EInit /\ PIdle /\ XIdle

Spec == Init /\ [][Next]_vars

InPass(t) == pc[t] \in PassPcs

InCall(t) == pc[t] \in CallPcs

HasCall(t, call) == InLog(call, clog[t])

BothDone == \A t \in Reconcilers : pc[t] = "done"

\* C1: at most one reconcile() invocation is inside its pass; an invocation
\* that finds the lock taken waits while the other holds it or is about to;
\* provider calls of the two passes never overlap; each invocation that ends,
\* ends successfully, and two finished passes have both set the timestamp.
C1_SingleFlight ==
    /\ ~(InPass("r1") /\ InPass("r2"))
    /\ ~(InCall("r1") /\ InCall("r2"))
    /\ \A t \in Reconcilers :
         /\ InPass(t) => holder = t
         /\ pc[t] = "wait_lock" =>
               \E u \in Reconcilers \ {t} :
                  \/ holder = u /\ InPass(u)
                  \/ holder = "none" /\ pc[u] = "done"
         /\ pc[t] = "done" => result[t] = "ok"
    /\ BothDone => last_reconciliation = 2

\* the second invocation waits on the lock while the first is in a provider
\* call on a container
C1_Witness ==
    /\ pc["r2"] = "wait_lock"
    /\ pc["r1"] = "c_present"
    /\ holder = "r1"
    /\ waiters = <<"r2">>

\* C2: while an imperative operator is in its provider call (present, start,
\* stop, absent) no reconcile pass is in progress.
C2_ApiUnderMutex ==
    pc["api"] \in MutatingApiPcs => \A t \in Reconcilers : ~InPass(t)

\* C3: in the calls of one pass, no image-provider call follows a
\* container-provider call, and before the first container-provider call every
\* declared image has had its status call.
C3_ImagesBeforeContainers ==
    \A t \in Reconcilers :
       \A j \in 1..Len(clog[t]) :
          clog[t][j][1] = "container" =>
             /\ \A k \in j..Len(clog[t]) : clog[t][k][1] = "container"
             /\ \A i \in 1..Len(images) :
                  \E k \in 1..(j - 1) : clog[t][k] = <<"image", "status", images[i].name>>

\* a pass whose pull of the first image failed has gone on to the containers
C3_Witness ==
    /\ HasCall("r1", <<"image", "present", "u-tar">>)
    /\ ~hostI["u-tar"].present
    /\ HasCall("r1", <<"image", "status", "deb-raw">>)
    /\ HasCall("r1", <<"container", "status", "c2">>)
    /\ pc["r2"] = "idle" /\ pc["api"] = "idle"

\* C4: a finished pass returned without raising, whatever provider call
\* failed in it, and it made the status call of every declared image and of
\* every declared container that validates, in catalog order.
C4_BestEffort ==
    \A t \in Reconcilers :
       pc[t] = "done" =>
          /\ result[t] = "ok"
          /\ \A i \in 1..Len(images) : HasCall(t, <<"image", "status", images[i].name>>)
          /\ \A i \in 1..Len(containers) :
               validate_spec(containers[i]) =>
                  HasCall(t, <<"container", "status", containers[i].name>>)
          /\ \A j, k \in 1..Len(clog[t]) :
               /\ j < k
               /\ clog[t][j][1] = "container" /\ clog[t][k][1] = "container"
               => IndexOf(clog[t][j][3]) <= IndexOf(clog[t][k][3])

\* creating c1 raised in the only pass that ran; the pass still created c2
\* and returned
C4_Witness ==
    /\ pc["r1"] = "done" /\ pc["r2"] = "idle" /\ pc["api"] = "idle"
    /\ faults = 1
    /\ HasCall("r1", <<"container", "present", "c1">>)
    /\ ~hostC["c1"].registered
    /\ HasCall("r1", <<"container", "present", "c2">>)
    /\ hostC["c2"].registered

(***************************************************************************)
(* C6.  Idempotence of the container provider: a present(x) that follows a *)
(* successful present(x), no host command failing in either, succeeds,     *)
(* leaves the host exactly as the first left it and issues no clone; an    *)
(* absent(x) that follows a successful absent(x) leaves the host as it was *)
(* and issues no stop, disable or remove.                                  *)
(***************************************************************************)
Twice(op) == /\ pPrev.op = op /\ pPrev.res = "ok" /\ pPrev.clean
             /\ pLast.op = op /\ pLast.clean

C6_Idempotent ==
    /\ Twice("present") =>
          /\ pLast.res = "ok"
          /\ pHost = pBefore
          /\ ~InLog("clone", pLast.log)
    /\ Twice("absent") =>
          /\ pLast.res = "ok"
          /\ pHost = pBefore
          /\ ~InLog("stop_unit", pLast.log)
          /\ ~InLog("disable", pLast.log)
          /\ ~InLog("remove", pLast.log)

\* the second of two successful present(x): the machine is there, the configs
\* were re-ensured
C6_Witness ==
    /\ Twice("present")
    /\ pHost.registered /\ pHost.nspawn /\ pHost.override /\ pHost.active
    /\ InLog("write_nspawn", pLast.log)

(***************************************************************************)
(* C7.  Self-healing removal: when absent(x) returns, no machine           *)
(* directory, raw file, machine config file or unit-override directory of  *)
(* x is left, whatever the host state it started from.                     *)
(***************************************************************************)
C7_AbsentLeavesNothing ==
    (pLast.op = "absent" /\ pLast.res = "ok") =>
        ~pHost.dir /\ ~pHost.raw /\ ~pHost.nspawn /\ ~pHost.override

\* absent(x) returned from a partial state: a directory and an override
\* without machine registration
C7_Witness ==
    /\ pLast.op = "absent" /\ pLast.res = "ok"
    /\ ~pBefore.registered /\ pBefore.dir /\ pBefore.override
    /\ InLog("rmtree_dir", pLast.log)

(***************************************************************************)
(* C8.  Read-only status: status(x) leaves the host unchanged and issues   *)
(* nothing but the machine query; on a partial state (directory or raw     *)
(* file without registration) it answers present for a raw-kind image      *)
(* whose raw file exists and absent otherwise.                             *)
(***************************************************************************)
C8_StatusReadOnly ==
    pLast.op = "status" =>
        /\ pHost = pBefore
        /\ pLast.log = <<"show">>
        /\ (pLast.clean /\ ~pBefore.registered /\ (pBefore.dir \/ pBefore.raw)) =>
              pLast.res = IF pBefore.raw /\ is_raw_image(pSpec) THEN PRESENT ELSE ABSENT

\* status(x) answered absent on an orphaned directory with config residuals
C8_Witness ==
    /\ pLast.op = "status" /\ pLast.res = ABSENT
    /\ ~pBefore.registered /\ pBefore.dir /\ pBefore.nspawn


(***************************************************************************)
(* SpecReload: two reconcile() invocations while the catalog is reloaded   *)
(* from disk; no host command fails.                                       *)
(***************************************************************************)
NextReload ==
    \/ \E t \in Reconcilers :
          \/ Invoke(t) \/ Wake(t) \/ ImgLoop(t) \/ ContLoop(t)
          \/ ImgStatus(t, NoFaults) \/ ImgPresent(t, NoFaults)
          \/ CStatus(t, NoFaults) \/ CPresent(t, NoFaults)
          \/ CIsRunning(t, NoFaults) \/ CStart(t, NoFaults)
          \/ CStop(t, NoFaults) \/ CAbsent(t, NoFaults)
    \/ Load

SpecReload == Init /\ [][NextReload]_vars

Dangling(spec) ==
    ~get_image_spec(spec.image).some \/ ~get_profile_spec(spec.profile).some

\* C9: a declared container whose image or profile name does not resolve in
\* the catalog fails validation once enriched (and so is skipped by the pass).
C9_DanglingInvalid ==
    \A i \in 1..Len(containers) :
       Dangling(containers[i]) => ~validate_spec(enrich_container_spec(containers[i]))


(***************************************************************************)
(* SpecControl: requests at the two servers.                               *)
(***************************************************************************)
NextControl == IpcRequest \/ HttpCommand \/ HttpStream

InitControl == EIdle /\ PIdle /\ CIdle /\ MIdle /\ SIdle /\ OIdle

SpecControl == InitControl /\ [][NextControl]_vars

PRIVILEGED_COMMANDS ==
    {"spawn", "stop", "start", "restart", "remove", "exec", "reconcile", "reload",
     "image_pull", "stream_exec", "stream_shell"}

NonPrivilegedSet == {"status", "list", "validate"}

\* C5: a privileged command from a peer whose uid is not 0 (or unknown) is
\* answered success=false with a permission-denied error and reaches no
\* handler; from uid 0 it is dispatched; status, list and validate are
\* dispatched whatever the uid.
C5_PrivilegeGate ==
    response.sent =>
       /\ request.command \in PRIVILEGED_COMMANDS /\ ~IsRoot(request.creds) =>
             /\ ~response.success
             /\ response.error = PermissionDenied
             /\ handled = "none"
       /\ request.command \in PRIVILEGED_COMMANDS /\ IsRoot(request.creds) =>
             handled = request.command
       /\ request.command \in NonPrivilegedSet => handled = request.command

(***************************************************************************)
(* SpecMerge: one container with a cloud_init mapping is loaded.           *)
(***************************************************************************)
InitMerge == EIdle /\ PIdle /\ CIdle /\ MInit /\ SIdle /\ OIdle

SpecMerge == InitMerge /\ [][LoadContainer]_vars

RECURSIVE deep_merge(_, _)
\* the recursive merge the resolution is to compute
deep_merge(base, other) ==
    [k \in DOMAIN base \cup DOMAIN other |->
        IF k \notin DOMAIN other THEN base[k]
        ELSE IF k \in DOMAIN base /\ base[k].kind = "mapping" /\ other[k].kind = "mapping"
        THEN Mapping(deep_merge(base[k].m, other[k].m))
        ELSE other[k]]

NamesTemplate ==
    /\ "template" \in DOMAIN node_cloud_init
    /\ node_cloud_init["template"].s \in DOMAIN cloud_init_templates

\* C10: the loaded cloud_init of a container naming a template is the
\* recursive merge of template and override, with the template field cleared.
C10_DeepMerge ==
    cloud_init # NotLoaded /\ NamesTemplate =>
       LET merged == CloudInitSpec(deep_merge(
                         cloud_init_templates[node_cloud_init["template"].s],
                         node_cloud_init))
       IN  /\ cloud_init.meta_data = merged.meta_data
           /\ cloud_init.user_data = merged.user_data
           /\ cloud_init.template = NoneValue


\* C11: start on an active unit issues no start_unit and no ready probe and
\* returns; stop on an inactive unit issues no stop_unit and returns; start on
\* an inactive unit issues start_unit, and stop on an active unit stop_unit,
\* for the unit systemd-nspawn@<name>.service.  (The no-op on start and the
\* stop_unit on stop suppose the unit-state query itself answered.)
C11_LifecycleNoOps ==
    /\ pLast.op = "start" /\ pBefore.active /\ pLast.clean =>
          /\ ~InLog("start_unit", pLast.log)
          /\ pLast.probes = 0
          /\ pLast.res = "ok"
          /\ pHost = pBefore
    /\ pLast.op = "stop" /\ ~pBefore.active =>
          /\ ~InLog("stop_unit", pLast.log)
          /\ pLast.res = "ok"
          /\ pHost = pBefore
    /\ pLast.op = "start" /\ ~pBefore.active =>
          /\ InLog("start_unit", pLast.log)
          /\ pLast.unit = "systemd-nspawn@x.service"
    /\ pLast.op = "stop" /\ pBefore.active /\ pLast.clean =>
          /\ InLog("stop_unit", pLast.log)
          /\ pLast.unit = "systemd-nspawn@x.service"
          /\ ~pHost.active

\* a start on a container that an earlier start had set running
C11_Witness ==
    /\ pLast.op = "start" /\ pBefore.active /\ pLast.res = "ok" /\ pLast.clean
    /\ pPrev.op = "start" /\ pPrev.res = "ok"


(***************************************************************************)
(* SpecStream: one streaming session.                                      *)
(***************************************************************************)
NextStream ==
    \/ SOpen \/ SFrame \/ SClientClose \/ SChildExit \/ SReadEnds \/ SCancelled
    \/ SFirstCompleted \/ SReaped

InitStream == EIdle /\ PIdle /\ CIdle /\ MIdle /\ SInit /\ OIdle

SpecStream == InitStream /\ [][NextStream]_vars

RECURSIVE BinaryData(_)
\* the payloads of the binary frames of a frame sequence, in order
BinaryData(q) ==
    IF q = <<>> THEN <<>>
    ELSE IF Head(q).kind = "binary" THEN <<Head(q).data>> \o BinaryData(Tail(q))
    ELSE BinaryData(Tail(q))

\* a resize message with both sizes usable
GoodResize(f) ==
    /\ f.kind = "text" /\ f.json = "object" /\ f.type = "resize"
    /\ f.rows.k = "int" /\ f.rows.v \in 0..USHORT_MAX
    /\ f.cols.k = "int" /\ f.cols.v \in 0..USHORT_MAX

\* a text frame that is no resize message or whose sizes cannot be used
BadText(f) ==
    /\ f.kind = "text"
    /\ \/ f.json # "object" \/ f.type # "resize"
       \/ f.rows.k = "other" \/ f.cols.k = "other"
       \/ f.rows.k = "int" /\ f.rows.v \notin 0..USHORT_MAX
       \/ f.cols.k = "int" /\ f.cols.v \notin 0..USHORT_MAX

RECURSIVE LastResize(_)
\* the sizes of the last good resize of a frame sequence (a resize lacking a
\* size is left out of the account)
LastResize(q) ==
    IF q = <<>> THEN NoWinsize
    ELSE LET f == q[Len(q)]
         IN  IF GoodResize(f) THEN [rows |-> f.rows.v, cols |-> f.cols.v]
             ELSE LastResize(SubSeq(q, 1, Len(q) - 1))

NoPartialResize(q) ==
    \A i \in 1..Len(q) : q[i].kind = "text" => GoodResize(q[i]) \/ BadText(q[i])

\* C12: the window size is that of the last good resize frame read; text
\* frames that are malformed, of unknown type or with unusable sizes change
\* nothing and do not end pump_write; the pty input is the binary frames read,
\* in order.
C12_ControlProtocol ==
    /\ pty_in = BinaryData(processed)
    /\ NoPartialResize(processed) => winsize = LastResize(processed)
    /\ write_task = "done" /\ handler = "waiting" =>
          processed[Len(processed)].kind \in {"close", "error"}

\* a binary frame, an unusable text frame and another binary frame have been
\* read and the session is still open
C12_Witness ==
    /\ Len(processed) = 3
    /\ processed[1].kind = "binary"
    /\ BadText(processed[2])
    /\ processed[3].kind = "binary"
    /\ write_task = "running" /\ handler = "waiting"
    /\ Len(pty_in) = 2

\* C13: once the handler is past asyncio.wait no pump is left running; when
\* it has returned, the child has been reaped, the master is closed and each
\* pump is finished or cancelled.
C13_SessionEnds ==
    /\ handler \in {"reaping", "returned"} =>
          read_task # "running" /\ write_task # "running"
    /\ handler = "returned" /\ master # "none" =>
          /\ master = "closed" /\ slave = "closed"
          /\ child = "reaped"
          /\ read_task \in {"cancelled", "done"}
          /\ write_task \in {"cancelled", "done"}

\* the client closed the socket while the shell was running: the session
\* has ended and pump_read was cancelled
C13_Witness ==
    /\ handler = "returned" /\ master = "closed" /\ child = "reaped"
    /\ write_task = "done" /\ read_task = "cancelled"

(***************************************************************************)
(* C14.  Every response to POST /command whose body is an envelope the     *)
(* server produced from a parsed request, an envelope with success=false   *)
(* for a failing or rejected command included, carries HTTP status 200.    *)
(***************************************************************************)
C14_EnvelopeStatus200 ==
    request.server = "http" /\ request.route = "command" /\ request.body = "object"
        /\ response.sent
    => response.code = 200

(***************************************************************************)
(* C15.  A POST /command naming no defined command invokes no handler and  *)
(* is answered with status 500, success=false and an error containing      *)
(* 'Unknown command'; a 'status' command whose handler returns is answered *)
(* with status 200 and success=true.                                       *)
(***************************************************************************)
C15_UnknownCommand ==
    request.server = "http" /\ request.route = "command" /\ request.body = "object" =>
        /\ request.command \notin HttpHandlers =>
              /\ handled = "none"
              /\ response = [sent |-> TRUE, success |-> FALSE,
                             error |-> UnknownCommand, code |-> 500]
        /\ request.command = "status" /\ request.valid =>
              /\ handled = "status"
              /\ response.sent /\ response.success /\ response.code = 200

C15_Witness ==
    /\ request.server = "http" /\ request.route = "command"
    /\ request.body = "object" /\ request.command = "bogus"
    /\ response.code = 500 /\ response.error = UnknownCommand

(***************************************************************************)
(* SpecApi: one imperative operator, invoked on every catalog and host     *)
(* state, with no pass running.                                            *)
(***************************************************************************)
ApiFaults == EngineFaults \cup {{"get_unit_state"}, {"shell"}, {"read-only"}}

InitSolo ==
    /\ images = TheImages
    /\ containers \in Catalogs
    /\ hostI \in {[n \in ImageNames |-> NoImage], [n \in ImageNames |-> PulledImage]}
    /\ \E h \in {NoContainer, CreatedRunning, CreatedStopped, OrphanDir} :
          hostC = [n \in ContainerNames |-> IF n = "c1" THEN h ELSE NoContainer]
    /\ holder = "none" /\ waiters = <<>> /\ cpu = "none"
    /\ pc = [t \in Tasks |-> "idle"]
    /\ loc = [t \in Tasks |-> NoLoc]
    /\ clog = [t \in Tasks |-> <<>>]
    /\ result = [t \in Tasks |-> "none"]
    /\ last_reconciliation = 0
    /\ container_states = [n \in ContainerNames |-> UNKNOWN]
    /\ faults = 0 /\ loads = 0
    /\ PIdle /\ XIdle

NextApi ==
    \/ \E op \in ApiOps, name \in ApiNames : ApiInvoke(op, name)
    \/ AImgStatus(ApiFaults) \/ AImgPresent(ApiFaults) \/ APresent(ApiFaults)
    \/ AStart(ApiFaults) \/ AStop(ApiFaults) \/ AAbsent(ApiFaults)
    \/ AStatus(ApiFaults) \/ AIsRunning(ApiFaults) \/ AExecute(ApiFaults)

SpecApi == InitSolo /\ [][NextApi]_vars

ApiName == loc["api"].name

ApiOp == loc["api"].op

ApiCalled(provider, op) == HasCall("api", <<provider, op, ApiName>>)

\* the container is on the host as status() reports it, and its unit is active
OnHostRunning(name, spec) ==
    status(hostC[name], spec, {}).res = PRESENT /\ hostC[name].active

(***************************************************************************)
(* C16.  An imperative operator invoked with a name that is not in the     *)
(* catalog raises before any provider call; execute_in_container on a      *)
(* container that is not on the host, or whose unit is not active, raises  *)
(* and never calls the provider's execute.                                 *)
(***************************************************************************)
C16_FailFast ==
    /\ ApiOp # "" /\ ~HasContainer(ApiName) =>
          pc["api"] = "done" /\ result["api"] = "raise" /\ clog["api"] = <<>>
    /\ ApiOp = "exec" /\ HasContainer(ApiName)
          /\ ~OnHostRunning(ApiName, loc["api"].spec) =>
          /\ ~ApiCalled("container", "execute")
          /\ pc["api"] = "done" => result["api"] = "raise"

C16_Witness ==
    /\ ApiOp = "exec" /\ ApiName = "c1" /\ hostC["c1"] = CreatedStopped
    /\ pc["api"] = "done" /\ result["api"] = "raise"
    /\ clog["api"] = <<<<"container", "status", "c1">>, <<"container", "is_running", "c1">>>>

(***************************************************************************)
(* C17.  An imperative operator invoked on a cataloged container whose     *)
(* image or profile reference does not resolve raises, and makes no        *)
(* mutating provider call (present, absent, start, stop, execute) for it.  *)
(***************************************************************************)
C17_DanglingFailFast ==
    ApiOp # "" /\ HasContainer(ApiName) /\ Dangling(get_container_spec(ApiName)) =>
        /\ \A op \in {"present", "absent", "start", "stop", "execute"} :
              ~ApiCalled("container", op)
        /\ pc["api"] = "done" => result["api"] = "raise"

(***************************************************************************)
(* C18.  create_container calls the container provider's present only      *)
(* after the image status check, and after the image pull when the image   *)
(* was not present, have completed: the image is then on the host.  When   *)
(* the pull fails the operator raises and present is never called.         *)
(***************************************************************************)
C18_ImageBeforeClone ==
    ApiOp = "create" =>
        /\ ApiCalled("container", "present") =>
              /\ clog["api"][1] = <<"image", "status", loc["api"].img.name>>
              /\ hostI[loc["api"].img.name].present
              /\ clog["api"][Len(clog["api"])] = <<"container", "present", ApiName>>
        /\ pc["api"] = "done"
              /\ HasCall("api", <<"image", "present", loc["api"].img.name>>)
              /\ ~hostI[loc["api"].img.name].present =>
              result["api"] = "raise" /\ ~ApiCalled("container", "present")

C18_Witness ==
    /\ ApiOp = "create" /\ pc["api"] = "done" /\ result["api"] = "ok"
    /\ clog["api"] = <<<<"image", "status", "u-tar">>, <<"image", "present", "u-tar">>,
                       <<"container", "present", "c1">>>>
    /\ hostI["u-tar"].present /\ hostC["c1"].registered

(***************************************************************************)
(* SpecPass: one reconcile pass, alone, on every catalog and host state.   *)
(***************************************************************************)
NextPass ==
    \/ Invoke("r1") \/ ImgLoop("r1") \/ ContLoop("r1")
    \/ ImgStatus("r1", EngineFaults) \/ ImgPresent("r1", EngineFaults)
    \/ CStatus("r1", EngineFaults) \/ CPresent("r1", EngineFaults)
    \/ CIsRunning("r1", EngineFaults) \/ CStart("r1", EngineFaults)
    \/ CStop("r1", EngineFaults) \/ CAbsent("r1", EngineFaults)

SpecPass == InitSolo /\ [][NextPass]_vars

PassDone == pc["r1"] = "done"

Declared(ensure, state) ==
    LET spec == get_container_spec("c1")
    IN  spec.ensure = ensure /\ spec.state = state /\ ~Dangling(spec)

(***************************************************************************)
(* C19.  A pass in which every host operation succeeds and which finds the *)
(* image and the container of a declaration (ensure=present,               *)
(* state=running, autostart, resolvable image and profile) absent (it      *)
(* pulls the image; _container_states records ABSENT), ends with the image *)
(* present, the container present, its unit enabled and active, and the    *)
(* machine config file and the unit override present.                      *)
(***************************************************************************)
C19_CreateAndRun ==
    /\ PassDone /\ faults = 0
    /\ Declared("present", "running") /\ get_container_spec("c1").autostart
    /\ HasCall("r1", <<"image", "present", "u-tar">>)
    /\ container_states["c1"] = ABSENT
    => /\ result["r1"] = "ok"
       /\ img_status(hostI["u-tar"], {}) = PRESENT
       /\ status(hostC["c1"], get_container_spec("c1"), {}).res = PRESENT
       /\ hostC["c1"].enabled /\ hostC["c1"].active
       /\ hostC["c1"].nspawn /\ hostC["c1"].override

C19_Witness ==
    /\ PassDone /\ faults = 0 /\ Declared("present", "running")
    /\ HasCall("r1", <<"image", "present", "u-tar">>)
    /\ container_states["c1"] = ABSENT
    /\ HasCall("r1", <<"container", "present", "c1">>)
    /\ hostC["c1"] = [CreatedRunning EXCEPT !.seed = hostC["c1"].seed]

(***************************************************************************)
(* C20.  With a container declared ensure=present, state=stopped and       *)
(* present on the host, no step of a pass changes anything of the          *)
(* container but whether its unit is active (no clone, removal or cleanup: *)
(* the registration, machine directory, config file and override stay as   *)
(* they are), and a pass in which every host operation succeeds and which  *)
(* found the container present ends with the container present and its     *)
(* unit inactive, having called neither present nor absent for it.         *)
(***************************************************************************)
C20_ToggleToStopped ==
    /\ [](PassDone /\ faults = 0 /\ Declared("present", "stopped")
             /\ container_states["c1"] = PRESENT
          => /\ hostC["c1"].registered /\ ~hostC["c1"].active
             /\ ~HasCall("r1", <<"container", "present", "c1">>)
             /\ ~HasCall("r1", <<"container", "absent", "c1">>))
    /\ [][Declared("present", "stopped") /\ hostC["c1"].registered
          => hostC'["c1"] = [hostC["c1"] EXCEPT !.active = hostC'["c1"].active]]_vars

C20_Witness ==
    /\ PassDone /\ faults = 0 /\ Declared("present", "stopped")
    /\ container_states["c1"] = PRESENT
    /\ HasCall("r1", <<"container", "stop", "c1">>)
    /\ hostC["c1"] = [CreatedRunning EXCEPT !.active = FALSE]

(***************************************************************************)
(* SpecPasses: two reconcile() invocations and nothing else, on every      *)
(* catalog and host state.                                                 *)
(***************************************************************************)
NextPasses ==
    \E t \in Reconcilers :
       \/ Invoke(t) \/ Wake(t) \/ ImgLoop(t) \/ ContLoop(t)
       \/ ImgStatus(t, EngineFaults) \/ ImgPresent(t, EngineFaults)
       \/ CStatus(t, EngineFaults) \/ CPresent(t, EngineFaults)
       \/ CIsRunning(t, EngineFaults) \/ CStart(t, EngineFaults)
       \/ CStop(t, EngineFaults) \/ CAbsent(t, EngineFaults)

SpecPasses == InitSolo /\ [][NextPasses]_vars

Pos(cmd, log) == CHOOSE i \in 1..Len(log) : log[i] = cmd

Before(a, b, log) == InLog(a, log) /\ InLog(b, log) /\ Pos(a, log) < Pos(b, log)

MutatingCalls(name) ==
    { <<"container", op, name>> : op \in {"present", "absent", "start", "stop"} }

(***************************************************************************)
(* C21.  With a container declared ensure=absent: the step of a pass that  *)
(* removes it while it is registered and running, no host command failing, *)
(* is the provider's absent, which stops the unit, then disables it, then  *)
(* removes the machine, and leaves neither registration nor config file    *)
(* nor override directory; and over two passes on the same catalog with no *)
(* host command failing, at most one makes a mutating call for the         *)
(* container, and that call is absent.                                     *)
(***************************************************************************)
C21_RemovalByReconcile ==
    /\ [][\A t \in Reconcilers :
            /\ pc[t] = "c_absent" /\ pc'[t] # "c_absent" /\ faults' = faults
            /\ loc[t].spec.name = "c1" /\ hostC["c1"].registered /\ hostC["c1"].active
            => LET r == absent(hostC["c1"], loc[t].spec, {})
               IN  /\ hostC'["c1"] = r.h
                   /\ Before("stop_unit", "disable", r.log)
                   /\ Before("disable", "remove", r.log)
                   /\ ~r.h.registered /\ ~r.h.nspawn /\ ~r.h.override]_vars
    /\ [](faults = 0 /\ HasContainer("c1") /\ get_container_spec("c1").ensure = "absent"
          => /\ ~(HasCall("r1", <<"container", "absent", "c1">>)
                   /\ HasCall("r2", <<"container", "absent", "c1">>))
             /\ \A t \in Reconcilers :
                   \A call \in MutatingCalls("c1") \ {<<"container", "absent", "c1">>} :
                      ~HasCall(t, call))

C21_Witness ==
    /\ BothDone /\ faults = 0 /\ get_container_spec("c1").ensure = "absent"
    /\ \E t \in Reconcilers, u \in Reconcilers :
          /\ HasCall(t, <<"container", "absent", "c1">>)
          /\ HasCall(u, <<"container", "status", "c1">>)
          /\ \A call \in MutatingCalls("c1") : ~HasCall(u, call)
    /\ hostC["c1"] = NoContainer

\* what is left of a container that has no machine registration
Residual(h) == ~h.registered /\ (h.dir \/ h.raw \/ h.nspawn \/ h.override)

\* every residual of h has its removal in the log, before the clone
RemovedBeforeClone(h, log) ==
    /\ InLog("clone", log)
    /\ h.dir => Before("rmtree_dir", "clone", log)
    /\ h.raw => Before("unlink_raw", "clone", log)
    /\ h.nspawn => Before("unlink_nspawn", "clone", log)
    /\ h.override => Before("rmtree_override", "clone", log)

Recovered ==
    /\ pLast.res = "ok"
    /\ RemovedBeforeClone(pBefore, pLast.log)
    /\ status(pHost, pSpec, {}).res = PRESENT

(***************************************************************************)
(* C22 as stated.  present(x), called with no host command failing while a *)
(* directory, raw file or config residual of x exists without a machine    *)
(* registration, removes every such residual before the clone, clones, and *)
(* succeeds with status(x) = present.                                      *)
(***************************************************************************)
C22_PartialRecovery_AsStated ==
    pLast.op = "present" /\ pLast.clean /\ Residual(pBefore) => Recovered

(***************************************************************************)
(* C22 amended.  The same, for the residuals status(x) reports as absent:  *)
(* every case but a raw-kind image whose raw file exists, which status(x)  *)
(* reports as present so that present(x) re-ensures the configs and does   *)
(* not clone.                                                              *)
(***************************************************************************)
C22_PartialRecovery ==
    /\ pLast.op = "present" /\ pLast.clean /\ Residual(pBefore)
    /\ status(pBefore, pSpec, {}).res = ABSENT
    => Recovered

C22_Witness ==
    /\ pLast.op = "present" /\ pLast.res = "ok" /\ pLast.clean
    /\ ~pBefore.registered /\ pBefore.dir /\ pBefore.override /\ ~pBefore.raw
    /\ Before("rmtree_dir", "clone", pLast.log)
    /\ pHost.registered

RawKind == pSpec.image_spec.some /\ pSpec.image_spec.type = "raw"

(***************************************************************************)
(* C23.  present(x) for a container whose image is of the raw kind never   *)
(* applies custom files nor seeds cloud-init, though the image declares    *)
(* custom files and the container cloud_init; when it finds the container  *)
(* absent and no host command fails it clones, writes the machine config   *)
(* and the unit override, and status(x) is present afterwards.  For such a *)
(* container status(x) answers present whenever <name>.raw exists.         *)
(***************************************************************************)
C23_RawImages ==
    RawKind =>
      /\ pLast.op = "present" =>
           /\ ~InLog("custom_files", pLast.log)
           /\ ~InLog("cloudinit_prepare", pLast.log)
           /\ pLast.clean /\ status(pBefore, pSpec, {}).res = ABSENT =>
                 /\ pLast.res = "ok"
                 /\ Before("clone", "write_nspawn", pLast.log)
                 /\ Before("clone", "write_override", pLast.log)
                 /\ pHost.raw /\ ~pHost.seed
                 /\ status(pHost, pSpec, {}).res = PRESENT
      /\ pLast.op = "status" /\ pLast.clean /\ pBefore.raw => pLast.res = PRESENT

C23_Witness ==
    /\ RawKind /\ pSpec.image_spec.custom_files /\ pSpec.cloud_init
    /\ pLast.op = "present" /\ pLast.res = "ok" /\ pLast.clean
    /\ pBefore = NoContainer
    /\ InLog("clone", pLast.log) /\ pHost.registered /\ pHost.raw

(***************************************************************************)
(* SpecDriver: SystemdDBus calls on the units of the host.                 *)
(***************************************************************************)
NextDriver == DriverCall

InitDriver == EIdle /\ PIdle /\ CIdle /\ MIdle /\ SIdle /\ OIdle

SpecDriver == InitDriver /\ [][NextDriver]_vars

(***************************************************************************)
(* C24.  When the bus call of a driver operation raises, systemctl is run  *)
(* exactly once in that call; if it succeeds the call succeeds; if it      *)
(* fails too, the caller sees the original bus error.                      *)
(***************************************************************************)
C24_BusFallback ==
    unit_call.connected /\ unit_call.bus = "raise" =>
        /\ unit_call.cli_runs = 1
        /\ unit_call.cli = "ok" => unit_call.result = "ok"
        /\ unit_call.result = "raise" => unit_call.error = "DBusError"

(***************************************************************************)
(* C27.  A reader of the catalogs sees the catalog from before a load or   *)
(* the one after it, never a mixture: no load changes the catalogs under a *)
(* reconcile pass that has begun reading them and has not finished.        *)
(***************************************************************************)
C27_SnapshotCoherence ==
    [][loads' # loads /\ catalog' # catalog => \A t \in Reconcilers : ~InPass(t)]_vars

(***************************************************************************)
(* ChimeraAgent (agent/main.py): run() starts the control server, the      *)
(* periodic loop and the config watcher as tasks, waits for the shutdown   *)
(* event and cleans up.  The agent is taken from the point where           *)
(* initialize() has returned.                                              *)
(***************************************************************************)
MaxPasses == 2

Alive(a) == tasks[a] \in {"created", "running"}

Finished(a) == tasks[a] \in {"finished", "cancelled"}

\* StateEngine.reconcile up to its first await: the lock is taken or queued for
BeginPass(t) ==
    /\ IF CanAcquire
       THEN EnterPass(t) /\ UNCHANGED waiters
       ELSE /\ waiters' = Append(waiters, t)
            /\ pc' = [pc EXCEPT ![t] = "wait_lock"]
            /\ UNCHANGED <<holder, loc, cpu>>
    /\ UNCHANGED <<catalog, host, clog, result, last_reconciliation,
                   container_states, faults, loads>>

CancelPass_locked(t) ==
    /\ holder' = holder
    /\ waiters' = SelectSeq(waiters, LAMBDA w : w # t)
    /\ pc' = [pc EXCEPT ![t] = IF @ = "idle" THEN "idle" ELSE "done"]
    /\ result' = [result EXCEPT ![t] = IF pc[t] \in {"idle", "done"} THEN @
                                       ELSE "cancelled"]

\* CancelledError thrown into reconcile() at the await it is suspended at:
\* a waiter leaves the queue, `async with` releases a held lock
CancelPass(t) ==
    /\ holder' = IF holder = t THEN "none" ELSE holder
    /\ waiters' = SelectSeq(waiters, LAMBDA w : w # t)
    /\ pc' = [pc EXCEPT ![t] = IF @ = "idle" THEN "idle" ELSE "done"]
    /\ result' = [result EXCEPT ![t] = IF pc[t] \in {"idle", "done"} THEN @
                                       ELSE "cancelled"]

\* Task.cancel() on a task of _tasks that is not done
cancel_task(task) == IF task \in {"created", "running"} THEN "cancelled" ELSE task

\* reconcile() tasks the watcher creates after a load
watch_reload_always(ok) == 1

watch_reload(ok) == IF ok THEN 1 ELSE 0

\* what the watcher finds on disk when a change is reported
WatchImages == {Missing, OnDisk(TheImages)}

WatchNodes ==
    {Missing, OnDisk(<<C2Spec>>),
     OnDisk(<<ContainerSpec("c1", "u-tar", "isolated", "present", "running", TRUE, FALSE),
              C2Spec>>)}

\* run(): the three tasks are created and run() waits for the shutdown event
RunStart ==
    /\ run_pc = "new"
    /\ run_pc' = "waiting"
    /\ tasks' = [a \in AgentTasks |-> "created"]
    /\ UNCHANGED <<pvars, evars, cvars, mvars, svars, dvars, rvars, vvars, zvars, shutdown_event, server,
                   last_load, scheduled, oc_started, passes>>

\* shutdown(): the handler of SIGTERM / SIGINT
Signal ==
    /\ run_pc = "waiting" /\ ~shutdown_event /\ cpu = "none"
    /\ shutdown_event' = TRUE
    /\ UNCHANGED <<pvars, evars, cvars, mvars, svars, dvars, rvars, vvars, zvars, run_pc, tasks, server,
                   last_load, scheduled, oc_started, passes>>

\* IPCServer.start: the socket is bound and served
ServerStart ==
    /\ tasks["server"] = "created" /\ cpu = "none"
    /\ tasks' = [tasks EXCEPT !["server"] = "running"]
    /\ server' = [listening |-> TRUE, socket |-> TRUE]
    /\ UNCHANGED <<pvars, evars, cvars, mvars, svars, dvars, rvars, vvars, zvars, shutdown_event, run_pc,
                   last_load, scheduled, oc_started, passes>>

\* _reconciliation_loop: `while not shutdown_event.is_set()` is entered, at the
\* start of the task or after the interval has timed out, and reconcile() called
LoopPass ==
    /\ Alive("loop") /\ cpu = "none" /\ ~shutdown_event
    /\ pc["r1"] \in {"idle", "done"} /\ passes < MaxPasses
    /\ passes' = passes + 1
    /\ tasks' = [tasks EXCEPT !["loop"] = "running"]
    /\ BeginPass("r1")
    /\ UNCHANGED <<pvars, cvars, mvars, svars, dvars, rvars, vvars, zvars, shutdown_event, run_pc, server,
                   last_load, scheduled, oc_started>>

\* _reconciliation_loop: the loop condition finds the event set
LoopExit ==
    /\ Alive("loop") /\ cpu = "none" /\ shutdown_event
    /\ pc["r1"] \in {"idle", "done"}
    /\ tasks' = [tasks EXCEPT !["loop"] = "finished"]
    /\ UNCHANGED <<pvars, evars, cvars, mvars, svars, dvars, rvars, vvars, zvars, shutdown_event, run_pc,
                   server, last_load, scheduled, oc_started, passes>>

\* _config_watch_loop: awatch yields a change; load(), then create_task
WatchEvent ==
    /\ Alive("watcher") /\ cpu = "none" /\ ~shutdown_event /\ loads < MaxLoads
    /\ loads' = loads + 1
    /\ tasks' = [tasks EXCEPT !["watcher"] = "running"]
    /\ \E main \in BOOLEAN, di \in WatchImages, dn \in WatchNodes :
         /\ IF ~main THEN UNCHANGED catalog
            ELSE /\ images' = load_images(di)
                 /\ containers' = load_containers(dn)
         /\ last_load' = IF main THEN "ok" ELSE "failed"
         /\ scheduled' = scheduled + watch_reload(main)
    /\ UNCHANGED <<pvars, cvars, mvars, svars, dvars, rvars, vvars, zvars, host, holder, waiters, cpu, pc,
                   loc, clog, result, last_reconciliation, container_states, faults,
                   shutdown_event, run_pc, server, oc_started, passes>>

\* _config_watch_loop: awatch ends on its stop_event
WatchStop ==
    /\ Alive("watcher") /\ cpu = "none" /\ shutdown_event
    /\ tasks' = [tasks EXCEPT !["watcher"] = "finished"]
    /\ UNCHANGED <<pvars, evars, cvars, mvars, svars, dvars, rvars, vvars, zvars, shutdown_event, run_pc,
                   server, last_load, scheduled, oc_started, passes>>

\* a reconcile() task created by the watcher begins to run
OcStart ==
    /\ oc_started < scheduled /\ cpu = "none" /\ pc["r2"] \in {"idle", "done"}
    /\ oc_started' = oc_started + 1
    /\ BeginPass("r2")
    /\ UNCHANGED <<pvars, cvars, mvars, svars, dvars, rvars, vvars, zvars, shutdown_event, run_pc, tasks,
                   server, last_load, scheduled, passes>>

\* _cleanup: every task of _tasks that is not done is cancelled; the server's
\* serve_forever closes the server as it unwinds; run() waits in gather().
\* run() is woken through the event loop's FIFO ready queue, behind the first
\* step of every reconcile() task created before the event was set.
Cleanup ==
    /\ run_pc = "waiting" /\ shutdown_event /\ cpu = "none"
    /\ oc_started = scheduled
    /\ run_pc' = "gathering"
    /\ tasks' = [a \in AgentTasks |-> cancel_task(tasks[a])]
    /\ server' = [server EXCEPT !.listening = IF Alive("server") THEN FALSE ELSE @]
    /\ IF Alive("loop") THEN CancelPass("r1")
       ELSE UNCHANGED <<holder, waiters, pc, result>>
    /\ UNCHANGED <<pvars, cvars, mvars, svars, dvars, rvars, vvars, zvars, catalog, host, cpu, loc, clog,
                   last_reconciliation, container_states, faults, loads,
                   shutdown_event, last_load, scheduled, oc_started, passes>>

\* _cleanup: gather() has returned; IPCServer.stop closes the server and unlinks
\* the socket file; run() returns
StopServer ==
    /\ run_pc = "gathering" /\ cpu = "none"
    /\ run_pc' = "returned"
    /\ server' = NoServer
    /\ UNCHANGED <<pvars, evars, cvars, mvars, svars, dvars, rvars, vvars, zvars, shutdown_event, tasks,
                   last_load, scheduled, oc_started, passes>>

NextAgent ==
    \/ RunStart \/ Signal \/ ServerStart \/ LoopPass \/ LoopExit
    \/ WatchEvent \/ WatchStop \/ OcStart \/ Cleanup \/ StopServer
    \/ \E t \in Reconcilers :
          \/ Wake(t) \/ ImgLoop(t) \/ ContLoop(t)
          \/ ImgStatus(t, NoFaults) \/ ImgPresent(t, NoFaults)
          \/ CStatus(t, NoFaults) \/ CPresent(t, NoFaults)
          \/ CIsRunning(t, NoFaults) \/ CStart(t, NoFaults)
          \/ CStop(t, NoFaults) \/ CAbsent(t, NoFaults)

\* the agent starts on a host without images, where c1 exists or does not
InitAgent ==
    /\ EInit /\ PIdle /\ XIdle
    /\ hostI = [n \in ImageNames |-> NoImage]
    /\ ~Residual(hostC["c1"])
    /\ containers[1].image = "u-tar"
    /\ containers[1].profile = "isolated"

SpecAgent == InitAgent /\ [][NextAgent]_vars

(***************************************************************************)
(* C25.  Config watcher: a load that succeeds is followed by exactly one   *)
(* out-of-cycle reconcile() being scheduled, and nothing else schedules    *)
(* one; a load that fails schedules none, leaves the catalogs alone and    *)
(* leaves the watcher watching; the out-of-cycle pass and the periodic     *)
(* pass are never inside reconcile()'s critical section together.          *)
(***************************************************************************)
C25_ConfigWatcher ==
    /\ [][loads' = loads + 1 =>
            /\ last_load' = "ok" => scheduled' = scheduled + 1
            /\ last_load' = "failed" =>
                  scheduled' = scheduled /\ catalog' = catalog /\ Alive("watcher")']_vars
    /\ [][scheduled' # scheduled => loads' = loads + 1 /\ last_load' = "ok"]_vars
    /\ [](oc_started <= scheduled)
    /\ [](~(InPass("r1") /\ InPass("r2")))

\* the watcher has reloaded and its reconcile() waits for the periodic pass to end
C25_Witness ==
    /\ last_load = "ok" /\ scheduled = 1 /\ oc_started = 1
    /\ pc["r2"] = "wait_lock" /\ InPass("r1")

(***************************************************************************)
(* C26.  Graceful shutdown: when run() has returned, the server task, the  *)
(* periodic loop and the watcher are cancelled or finished, no            *)
(* out-of-cycle reconcile() of the watcher is still under way, the control *)
(* server is closed and the socket file is gone.                           *)
(***************************************************************************)
C26_GracefulShutdown ==
    run_pc = "returned" =>
        /\ \A a \in AgentTasks : Finished(a)
        /\ pc["r2"] \in {"idle", "done"}
        /\ ~server.listening /\ ~server.socket

(***************************************************************************)
(* ProviderRegistry.initialize (providers/registry.py): every class of     *)
(* _provider_classes is instantiated, then every instance is initialized   *)
(* with the config and the registry.  A provider is named by its class.    *)
(***************************************************************************)
\* the map of the registry, and the maps the tests install in its place
ClassMaps ==
    { Production,
      << [name |-> "mock", class |-> "MockProvider"] >>,
      << [name |-> "mock1", class |-> "MockProvider"],
         [name |-> "mock2", class |-> "MockProvider"] >>,
      << [name |-> "container", class |-> "ContainerProvider"],
         [name |-> "cloudinit", class |-> "MockProvider"] >> }

LookupNames == {"image", "container", "cloudinit", "profile", "mock", "nonexistent"}

\* initialize(self, config, registry) of ContainerProvider and of the tests'
\* MockProvider; initialize(self, config) of the other providers
accepts_registry(class) == class \in {"ContainerProvider", "MockProvider"}

get_provider(name) ==
    IF \E i \in 1..Len(providers) : providers[i].name = name
    THEN (CHOOSE q \in {providers[i] : i \in 1..Len(providers)} : q.name = name).class
    ELSE "None"

list_providers == [i \in 1..Len(providers) |-> providers[i].name]

\* phase 1: `self._providers[name] = provider_class()` for every class
RegInstantiate ==
    /\ reg_pc = "new"
    /\ providers' = provider_classes
    /\ reg_pc' = "phase2"
    /\ UNCHANGED <<pvars, evars, cvars, mvars, svars, dvars, avars, vvars, zvars, provider_classes,
                   init_calls, cloudinit_ref, reg_i, lookup>>

\* phase 2, one provider: `await provider.initialize(config, self)`; the call
\* of an initialize that takes the config alone raises TypeError, which is
\* logged and raised again
RegInitialize ==
    /\ reg_pc = "phase2"
    /\ LET p == providers[reg_i] IN
         /\ init_calls' = [init_calls EXCEPT ![p.name] = @ + 1]
         /\ IF accepts_registry(p.class)
            THEN /\ cloudinit_ref' = IF p.class = "ContainerProvider"
                                     THEN get_provider("cloudinit") ELSE cloudinit_ref
                 /\ reg_i' = reg_i + 1
                 /\ reg_pc' = IF reg_i = Len(providers) THEN "done" ELSE "phase2"
            ELSE /\ reg_pc' = "raised"
                 /\ UNCHANGED <<cloudinit_ref, reg_i>>
    /\ UNCHANGED <<pvars, evars, cvars, mvars, svars, dvars, avars, vvars, zvars, provider_classes,
                   providers, lookup>>

GetProvider ==
    /\ \E name \in LookupNames : lookup' = [name |-> name, result |-> get_provider(name)]
    /\ UNCHANGED <<pvars, evars, cvars, mvars, svars, dvars, avars, vvars, zvars, provider_classes,
                   providers, init_calls, cloudinit_ref, reg_pc, reg_i>>

NextRegistry == RegInstantiate \/ RegInitialize \/ GetProvider

InitRegistry ==
    /\ EIdle /\ PIdle /\ CIdle /\ MIdle /\ SIdle /\ DIdle /\ AIdle /\ VIdle /\ ZIdle
    /\ provider_classes \in ClassMaps
    /\ providers = <<>>
    /\ init_calls = [n \in ProviderNames |-> 0]
    /\ cloudinit_ref = "None"
    /\ reg_pc = "new"
    /\ reg_i = 1
    /\ lookup = NoLookup

SpecRegistry == InitRegistry /\ [][NextRegistry]_vars

(***************************************************************************)
(* C28.  Two-phase registry: before initialize no provider is listed; with *)
(* the registered classes initialize does not raise, no provider is        *)
(* initialized before all are instantiated, and once it is done every      *)
(* provider has been initialized exactly once, get_provider returns each   *)
(* of them and the container provider holds the cloud-init provider.       *)
(***************************************************************************)
C28_TwoPhaseRegistry ==
    /\ reg_pc = "new" => list_providers = <<>>
    /\ (\E n \in ProviderNames : init_calls[n] > 0) => providers = provider_classes
    /\ provider_classes = Production =>
          /\ reg_pc # "raised"
          /\ reg_pc = "done" =>
                /\ \A i \in 1..Len(providers) :
                      /\ init_calls[providers[i].name] = 1
                      /\ get_provider(providers[i].name) = providers[i].class
                /\ cloudinit_ref = "CloudInitProvider"

(***************************************************************************)
(* C29.  Command set: a request of root for one of the twelve commands is  *)
(* dispatched to the handler of that command, and a restart whose          *)
(* container operation does not fail is answered with success.             *)
(***************************************************************************)
TwelveCommands ==
    {"status", "list", "spawn", "stop", "start", "restart", "remove", "exec",
     "reconcile", "reload", "image_pull", "validate"}

C29_CommandSet ==
    /\ response.sent /\ request.route \in {"socket", "command"}
    /\ request.body = "object" /\ IsRoot(request.creds)
    /\ request.command \in TwelveCommands
    => /\ handled = request.command
       /\ request.command = "restart" /\ request.valid => response.success

(***************************************************************************)
(* The validate command: IPCServer._handle_validate and                    *)
(* AgentServer._handle_validate.  Both reload the catalogs and answer; the *)
(* handler of the IPC server turns an exception of load() into its answer, *)
(* the one of the HTTP server lets it go to the dispatcher.                *)
(***************************************************************************)
LoadError == "load error"

\* the answer of IPCServer._handle_validate; `calls` are the provider calls made
ipc_validate(ok, imgs, conts) ==
    IF ok
    THEN [server |-> "ipc", outcome |-> "valid", error |-> "", counted |-> TRUE,
          images |-> Len(imgs), containers |-> Len(conts), calls |-> <<>>]
    ELSE [server |-> "ipc", outcome |-> "invalid", error |-> LoadError,
          counted |-> FALSE, images |-> 0, containers |-> 0, calls |-> <<>>]

\* the answer of AgentServer._handle_validate
http_validate(ok, imgs, conts) ==
    IF ok
    THEN [server |-> "http", outcome |-> "valid", error |-> "", counted |-> FALSE,
          images |-> 0, containers |-> 0, calls |-> <<>>]
    ELSE [server |-> "http", outcome |-> "raise", error |-> LoadError,
          counted |-> FALSE, images |-> 0, containers |-> 0, calls |-> <<>>]

HandleValidate ==
    /\ cpu = "none" /\ loads < MaxLoads
    /\ loads' = loads + 1
    /\ \E main \in BOOLEAN, di \in DiskImages, dn \in DiskNodes, srv \in {"ipc", "http"} :
         /\ IF ~main THEN UNCHANGED catalog
            ELSE /\ images' = load_images(di)
                 /\ containers' = load_containers(dn)
         /\ validation' = IF srv = "ipc" THEN ipc_validate(main, images', containers')
                          ELSE http_validate(main, images', containers')
    /\ UNCHANGED <<pvars, cvars, mvars, svars, dvars, avars, rvars, zvars, host, holder,
                   waiters, cpu, pc, loc, clog, result, last_reconciliation,
                   container_states, faults>>

NextValidate == HandleValidate

SpecValidate == Init /\ [][NextValidate]_vars

Validated(provider, name) == InLog(<<provider, "validate_spec", name>>, validation.calls)

Rejected(spec) == ~validate_spec(enrich_container_spec(spec))

(***************************************************************************)
(* C30.  The validate command: once it has answered on catalogs it could   *)
(* load, the image provider's validate_spec has been called for every      *)
(* declared image and the container provider's for every declared          *)
(* container; the answer is valid=false naming the container when the      *)
(* container provider rejects one, and valid=true with the counts of       *)
(* images and containers otherwise.                                        *)
(***************************************************************************)
C30_Validate ==
    validation.outcome # "none" /\ validation.error # LoadError =>
        /\ \A i \in 1..Len(images) : Validated("image", images[i].name)
        /\ \A i \in 1..Len(containers) : Validated("container", containers[i].name)
        /\ IF \E i \in 1..Len(containers) : Rejected(containers[i])
           THEN validation.outcome = "invalid"
           ELSE /\ validation.outcome = "valid" /\ validation.counted
                /\ validation.images = Len(images)
                /\ validation.containers = Len(containers)

(***************************************************************************)
(* ContainerProvider.execute (providers/container.py): the command is      *)
(* joined with shlex.join and handed to `/bin/bash -c` inside the          *)
(* container.  A string is a sequence of characters.                       *)
(***************************************************************************)
MaxArgLen == 2

MaxArgs == 2

Chars == {"a", " ", ";", "'", "\""}

\* shlex._find_unsafe: [^\w@%+=:,./-]
SafeChars == {"a"}

Words == UNION {[1..n -> Chars] : n \in 0..MaxArgLen}

Argvs == UNION {[1..n -> Words] : n \in 0..MaxArgs}

RECURSIVE Flatten(_)
Flatten(ss) == IF ss = <<>> THEN <<>> ELSE Head(ss) \o Flatten(Tail(ss))

\* str.replace("'", "'\"'\"'")
escape_quotes(w) ==
    Flatten([i \in 1..Len(w) |->
                IF w[i] = "'" THEN <<"'", "\"", "'", "\"", "'">> ELSE <<w[i]>>])

quote_bare(w) == w

\* shlex.quote
quote(w) ==
    IF w = <<>> THEN <<"'", "'">>
    ELSE IF \A i \in 1..Len(w) : w[i] \in SafeChars THEN w
    ELSE <<"'">> \o escape_quotes(w) \o <<"'">>

\* shlex.join: ' '.join(quote(arg) for arg in split_command)
join(command) ==
    Flatten([i \in 1..Len(command) |->
                IF i = 1 THEN quote(command[i]) ELSE <<" ">> \o quote(command[i])])

RunOutcomes == {"exit0", "nonzero", "oserror"}

\* execute: run_command(cmd, check=True); CalledProcessError is caught and
\* returned as exit_code, any other exception leaves execute
execute_result(cmd, run) ==
    [cmd |-> cmd, run |-> run,
     outcome |-> IF run = "oserror" THEN "raised" ELSE "returned",
     exit_code |-> IF run = "nonzero" THEN 1 ELSE 0]

PExecute ==
    /\ exec_call = NoExec
    /\ \E run \in RunOutcomes :
         exec_call' = execute_result(<<"machinectl", "shell", "c1", "/bin/bash", "-c",
                                        join(argv)>>, run)
    /\ UNCHANGED <<pvars, evars, cvars, mvars, svars, dvars, avars, rvars, vvars, ivars, wvars, argv>>

NextExec == PExecute

InitExec ==
    /\ EIdle /\ PIdle /\ CIdle /\ MIdle /\ SIdle /\ DIdle /\ AIdle /\ RIdle /\ VIdle
    /\ argv \in Argvs
    /\ exec_call = NoExec
    /\ IIdle /\ WIdle

SpecExec == InitExec /\ [][NextExec]_vars

\* how a POSIX shell reads a command line over Chars: blanks separate words,
\* `;` separates commands, '...' and "..." quote; the result is the sequence of
\* commands, each a sequence of words
RECURSIVE sh_parse(_, _, _, _, _, _)
sh_parse(line, mode, word, inword, words, cmds) ==
    IF line = <<>>
    THEN LET ws == IF inword THEN Append(words, word) ELSE words
         IN  IF ws = <<>> THEN cmds ELSE Append(cmds, ws)
    ELSE LET c == Head(line)
             r == Tail(line)
             ws == IF inword THEN Append(words, word) ELSE words
         IN  CASE mode = "single" ->
                    IF c = "'" THEN sh_parse(r, "plain", word, TRUE, words, cmds)
                    ELSE sh_parse(r, "single", Append(word, c), TRUE, words, cmds)
               [] mode = "double" ->
                    IF c = "\"" THEN sh_parse(r, "plain", word, TRUE, words, cmds)
                    ELSE sh_parse(r, "double", Append(word, c), TRUE, words, cmds)
               [] OTHER ->
                    IF c = " " THEN sh_parse(r, "plain", <<>>, FALSE, ws, cmds)
                    ELSE IF c = ";"
                    THEN sh_parse(r, "plain", <<>>, FALSE, <<>>, Append(cmds, ws))
                    ELSE IF c = "'" THEN sh_parse(r, "single", word, TRUE, words, cmds)
                    ELSE IF c = "\"" THEN sh_parse(r, "double", word, TRUE, words, cmds)
                    ELSE sh_parse(r, "plain", Append(word, c), TRUE, words, cmds)

sh_commands(line) == sh_parse(line, "plain", <<>>, FALSE, <<>>, <<>>)

(***************************************************************************)
(* C31.  Exec quoting: execute runs machinectl shell <name> /bin/bash -c   *)
(* <joined>, six arguments; the shell reads <joined> as one command whose  *)
(* words are exactly the elements of the command given (no command for an  *)
(* empty list); a non-zero exit is returned as exit_code, not raised.      *)
(***************************************************************************)
C31_ExecQuoting ==
    exec_call # NoExec =>
        /\ Len(exec_call.cmd) = 6
        /\ SubSeq(exec_call.cmd, 1, 5) = <<"machinectl", "shell", "c1", "/bin/bash", "-c">>
        /\ sh_commands(exec_call.cmd[6]) = IF argv = <<>> THEN <<>> ELSE <<argv>>
        /\ exec_call.run = "nonzero" =>
              exec_call.outcome = "returned" /\ exec_call.exit_code # 0

\* `a ` and `;` given as two elements, and the command exits non-zero
C31_Witness ==
    /\ argv = << <<"a", " ">>, <<";">> >>
    /\ exec_call.run = "nonzero" /\ exec_call.outcome = "returned"

AllBefore(a, b, log) ==
    \A i, j \in 1..Len(log) : log[i] = a /\ log[j] = b => i < j

Followed(a, b, log) ==
    \E i, j \in 1..Len(log) : log[i] = a /\ log[j] = b /\ i < j

ConfigSteps == {"write_nspawn", "write_override", "reload"}

(***************************************************************************)
(* C32.  Activation steps of present(x): the machine config file and the   *)
(* unit override are written and systemd reloaded before the unit is       *)
(* enabled or started; the enable step is made exactly when autostart is   *)
(* true; start_unit is issued only when state is running, and then the     *)
(* unit is active afterwards; on a container that is already present the   *)
(* steps run without clone, custom-file or cloud-init step.                *)
(***************************************************************************)
C32_ActivationOrder ==
    pLast.op = "present" =>
        /\ \A a \in ConfigSteps, b \in {"enable", "start_unit"} :
              AllBefore(a, b, pLast.log)
        /\ AllBefore("enable", "start_unit", pLast.log)
        /\ InLog("enable", pLast.log) => pSpec.autostart
        /\ InLog("start_unit", pLast.log) => pSpec.state = "running"
        /\ pLast.res = "ok" =>
              /\ pSpec.profile_spec.some /\ pSpec.profile_spec.nspawn_config_content =>
                    Followed("write_nspawn", "reload", pLast.log)
              /\ pSpec.profile_spec.some /\ pSpec.profile_spec.systemd_override_content =>
                    Followed("write_override", "reload", pLast.log)
              /\ pSpec.autostart => InLog("enable", pLast.log)
              /\ pSpec.state = "running" => pHost.active
        /\ pLast.clean /\ status(pBefore, pSpec, {}).res = PRESENT =>
              /\ pLast.res = "ok"
              /\ ~InLog("clone", pLast.log)
              /\ ~InLog("custom_files", pLast.log)
              /\ ~InLog("cloudinit_prepare", pLast.log)

\* present on a registered, stopped container with autostart and state running
C32_Witness ==
    /\ pLast.op = "present" /\ pLast.res = "ok" /\ pLast.clean
    /\ pBefore.registered /\ ~pBefore.active /\ ~pBefore.nspawn
    /\ pSpec.autostart /\ pSpec.state = "running"
    /\ Before("write_nspawn", "enable", pLast.log)
    /\ Before("enable", "start_unit", pLast.log)
    /\ ~InLog("clone", pLast.log)

(***************************************************************************)
(* The image provider called directly (providers/image.py): present and    *)
(* absent of one image on a host, with at most MaxFaults failing commands. *)
(***************************************************************************)
ImageTypes == {"tar", "raw"}

VerifyModes == {"signature", "checksum", "no"}

ImageCommands == {"show_image", "pull-tar", "pull-raw", "clean", "show_image_ro",
                  "read-only", "remove"}

\* "temp_files" is not a failure: it stands for leftovers found by the glob
ImageFaults == {F \in SUBSET (ImageCommands \cup {"temp_files"}) :
                    Cardinality(F \ {"temp_files"}) <= MaxFaults}

\* the machinectl command line of the pull
pull_command(spec) ==
    LET pull_cmd == IF spec.type = "tar" THEN "pull-tar" ELSE "pull-raw"
        cmd == <<"machinectl", pull_cmd, "source", spec.name>>
    IN  IF spec.verify = "signature" THEN Append(cmd, "--verify=signature")
        ELSE IF spec.verify = "checksum" THEN Append(cmd, "--verify=checksum")
        ELSE IF spec.verify = "no" THEN Append(cmd, "--verify=no")
        ELSE cmd

img_absent_always(ih, spec, F) ==
    Exec([Run(ih) EXCEPT !.log = <<"show_image">>], "remove", F, NoImage)

img_absent(ih, spec, F) ==
    LET r0 == [Run(ih) EXCEPT !.log = <<"show_image">>]
    IN  IF img_status(ih, F) = ABSENT THEN r0
        ELSE Exec(r0, "remove", F, NoImage)

ImageCall(op, r, F) ==
    /\ iHost' = r.h
    /\ iLast' = [op |-> op, res |-> IF r.ok THEN "ok" ELSE "raise", log |-> r.log,
                 pull |-> IF InLog("pull-tar", r.log) \/ InLog("pull-raw", r.log)
                          THEN pull_command(iSpec) ELSE <<>>,
                 before |-> iHost, status |-> img_status(iHost, F), F |-> F]
    /\ UNCHANGED <<pvars, evars, cvars, mvars, svars, dvars, avars, rvars, vvars, qvars,
                   wvars, iSpec>>

IPresent ==
    \E F \in ImageFaults : ImageCall("present", img_present(iHost, iSpec, F), F)

IAbsent ==
    \E F \in ImageFaults : ImageCall("absent", img_absent(iHost, iSpec, F), F)

NextImage == IPresent \/ IAbsent

InitImage ==
    /\ EIdle /\ PIdle /\ CIdle /\ MIdle /\ SIdle /\ DIdle /\ AIdle /\ RIdle /\ VIdle
    /\ QIdle /\ WIdle
    /\ iSpec \in [name : {"u-tar"}, type : ImageTypes, verify : VerifyModes]
    /\ iHost \in [present : BOOLEAN, readonly : BOOLEAN]
    /\ iLast = NoImageCall

SpecImage == InitImage /\ [][NextImage]_vars

Occurrences(cmd, log) == Cardinality({i \in 1..Len(log) : log[i] = cmd})

ThePull == IF iSpec.type = "tar" THEN "pull-tar" ELSE "pull-raw"

OtherPull == IF iSpec.type = "tar" THEN "pull-raw" ELSE "pull-tar"

AfterPull == {"clean", "show_image_ro", "read-only"}

\* C33: present(i) issues no pull when the status check reports the image
\* present; otherwise it issues the pull of the image's kind once, with the
\* declared verify option, and the image-clean step and the read-only marking
\* come only after a pull that succeeded, clean before the marking, the
\* read-only command being skipped when the image is already read-only; when the
\* pull fails the call raises and neither clean nor read-only marking runs.
\* absent(i) issues no remove when the status check reports the image absent.
C33_ImagePresent ==
    LET log == iLast.log
    IN  /\ iLast.op = "present" =>
             /\ "show_image" \notin iLast.F =>
                    (iLast.status = PRESENT <=> iLast.before.present)
             /\ iLast.status = PRESENT =>
                    /\ log = <<"show_image">>
                    /\ iLast.res = "ok" /\ iHost = iLast.before
             /\ iLast.status # PRESENT =>
                    /\ Occurrences(ThePull, log) = 1 /\ ~InLog(OtherPull, log)
                    /\ iLast.pull = <<"machinectl", ThePull, "source", iSpec.name,
                                      "--verify=" \o iSpec.verify>>
                    /\ \A c \in AfterPull : AllBefore(ThePull, c, log)
                    /\ AllBefore("clean", "show_image_ro", log)
                    /\ AllBefore("show_image_ro", "read-only", log)
                    /\ ThePull \in iLast.F =>
                           /\ iLast.res = "raise"
                           /\ \A c \in AfterPull : ~InLog(c, log)
                           /\ iHost = iLast.before
                    /\ InLog("read-only", log) => ~iLast.before.readonly
                    /\ iLast.res = "ok" =>
                           /\ iHost.present /\ iHost.readonly
                           /\ "temp_files" \in iLast.F => InLog("clean", log)
                           /\ InLog("show_image_ro", log)
                           /\ ~iLast.before.readonly => InLog("read-only", log)
        /\ iLast.op = "absent" /\ iLast.status = ABSENT =>
               /\ ~InLog("remove", log) /\ iLast.res = "ok" /\ iHost = iLast.before

C33_Witness ==
    /\ iLast.op = "present" /\ iLast.status = ABSENT /\ iLast.res = "ok"
    /\ iLast.log = <<"show_image", ThePull, "clean", "show_image_ro", "read-only">>
    /\ iSpec.verify = "checksum"

(***************************************************************************)
(* ContainerProvider.start and _wait_for_ready, one await at a time        *)
(* (providers/container.py 207-224, 391-408).  The log of probes is kept   *)
(* as counters.                                                            *)
(***************************************************************************)
ProbeOutcomes == {"ready", "not_ready", "raise"}

\* is_running answered; a running container returns at once
RIsRunning ==
    /\ ready.pc = "idle"
    /\ ready' = [ready EXCEPT !.pc = IF ready.running THEN "returned" ELSE "start_unit"]
    /\ UNCHANGED <<pvars, evars, cvars, mvars, svars, dvars, avars, rvars, vvars, qvars,
                   ivars>>

RStartUnit ==
    /\ ready.pc = "start_unit"
    /\ \E ok \in BOOLEAN :
         ready' = [ready EXCEPT !.start_units = @ + 1,
                                !.pc = IF ok THEN "probe" ELSE "raised"]
    /\ UNCHANGED <<pvars, evars, cvars, mvars, svars, dvars, avars, rvars, vvars, qvars,
                   ivars>>

RProbe_on ==
    /\ ready.pc = "probe"
    /\ \E out \in ProbeOutcomes :
         ready' = [ready EXCEPT !.probes = @ + 1, !.last = out,
                                !.all_raised = @ /\ out = "raise",
                                !.pc = "sleep"]
    /\ UNCHANGED <<pvars, evars, cvars, mvars, svars, dvars, avars, rvars, vvars, qvars,
                   ivars>>

\* machinectl shell x /bin/true: exit 0, another exit code, or an exception
RProbe ==
    /\ ready.pc = "probe"
    /\ \E out \in ProbeOutcomes :
         ready' = [ready EXCEPT !.probes = @ + 1, !.last = out,
                                !.all_raised = @ /\ out = "raise",
                                !.pc = IF out = "ready" THEN "returned" ELSE "sleep"]
    /\ UNCHANGED <<pvars, evars, cvars, mvars, svars, dvars, avars, rvars, vvars, qvars,
                   ivars>>

\* asyncio.sleep(1), then the next turn of `for i in range(timeout)`
RSleep ==
    /\ ready.pc = "sleep"
    /\ ready' = [ready EXCEPT !.sleeps = @ + 1, !.i = @ + 1,
                              !.pc = IF ready.i + 1 < ReadyTimeout THEN "probe"
                                     ELSE "returned"]
    /\ UNCHANGED <<pvars, evars, cvars, mvars, svars, dvars, avars, rvars, vvars, qvars,
                   ivars>>

NextReady == RIsRunning \/ RStartUnit \/ RProbe \/ RSleep

InitReady ==
    /\ EIdle /\ PIdle /\ CIdle /\ MIdle /\ SIdle /\ DIdle /\ AIdle /\ RIdle /\ VIdle
    /\ QIdle /\ IIdle
    /\ \E b \in BOOLEAN : ready = [NoStart EXCEPT !.running = b]

SpecReady == InitReady /\ [][NextReady]_vars

\* the event loop keeps running the coroutine
FairReady == SpecReady /\ WF_vars(NextReady)

StartOver == ready.pc \in {"returned", "raised"}

ReadyWaitBounds ==
    /\ ready.start_units <= 1
    /\ ready.probes <= ReadyTimeout
    /\ ready.sleeps <= ready.probes /\ ready.probes <= ready.sleeps + 1
    /\ ready.probes > 0 => ready.start_units = 1 /\ ready.pc # "raised"
    /\ ready.last = "ready" => ready.pc = "returned"
    /\ ready.pc = "raised" => ready.start_units = 1 /\ ready.probes = 0
    /\ ready.pc = "returned" /\ ~ready.running =>
           /\ ready.start_units = 1
           /\ ready.last = "ready" \/ ready.probes = ReadyTimeout
    /\ ready.running => ready.start_units = 0 /\ ready.probes = 0

\* C34: start(x) on a non-running container issues start_unit once, then
\* probes at most 30 times, one probe per second, and stops at the first probe
\* that succeeds; when no probe succeeds, or every probe raises, it returns
\* after the 30th probe without another start_unit; when start_unit fails it
\* raises and no probe is made; and the call always comes to an end.
C34_ReadyWaitTerminates == []ReadyWaitBounds /\ <>StartOver

C34_Witness ==
    /\ ready.pc = "returned" /\ ~ready.running /\ ready.probes = ReadyTimeout
    /\ ready.all_raised /\ ready.start_units = 1

(***************************************************************************)
(* C35.  A reconcile pass survives a reload: with no host command failing, *)
(* every reconcile() that has ended ended normally and recorded its        *)
(* end-of-pass timestamp, whether or not load() ran while it was suspended *)
(* in a provider call.                                                     *)
(***************************************************************************)
C35_PassSurvivesReload ==
    /\ \A t \in Reconcilers : pc[t] = "done" => result[t] = "ok"
    /\ last_reconciliation = Cardinality({t \in Reconcilers : pc[t] = "done"})

(***************************************************************************)
(* SpecDrift: one reconcile pass on a host where container c1 is           *)
(* registered but its machine config file or its unit override is missing. *)
(***************************************************************************)
Drifted == {h \in HostStates : /\ h.registered /\ h.dir /\ ~h.raw /\ h.enabled
                               /\ ~(h.nspawn /\ h.override)}

InitDrift ==
    /\ images = TheImages
    /\ containers \in Catalogs
    /\ hostI \in {[n \in ImageNames |-> NoImage], [n \in ImageNames |-> PulledImage]}
    /\ \E h \in Drifted :
          hostC = [n \in ContainerNames |-> IF n = "c1" THEN h ELSE NoContainer]
    /\ holder = "none" /\ waiters = <<>> /\ cpu = "none"
    /\ pc = [t \in Tasks |-> "idle"]
    /\ loc = [t \in Tasks |-> NoLoc]
    /\ clog = [t \in Tasks |-> <<>>]
    /\ result = [t \in Tasks |-> "none"]
    /\ last_reconciliation = 0
    /\ container_states = [n \in ContainerNames |-> UNKNOWN]
    /\ faults = 0 /\ loads = 0
    /\ PIdle /\ XIdle

SpecDrift == InitDrift /\ [][NextPass]_vars

(***************************************************************************)
(* C36.  Drift repair: a pass in which every host operation succeeds and   *)
(* which finds a container declared ensure=present (image and profile      *)
(* resolving) present on the host ends with the container's machine config *)
(* file and unit override in place, and with the nocloud seed for a        *)
(* tar-kind container with cloud_init.                                     *)
(***************************************************************************)
C36_DriftRepair ==
    LET spec == enrich_container_spec(get_container_spec("c1"))
    IN  /\ PassDone /\ faults = 0 /\ result["r1"] = "ok"
        /\ HasContainer("c1") /\ spec.ensure = "present" /\ ~Dangling(spec)
        /\ container_states["c1"] = PRESENT
        => /\ hostC["c1"].nspawn /\ hostC["c1"].override
           /\ spec.cloud_init /\ ~is_raw_image(spec) => hostC["c1"].seed

(***************************************************************************)
(* C37.  A pass in which every host operation succeeds leaves, for a       *)
(* container declared ensure=absent, no machine directory, raw file,       *)
(* machine config file or unit override on the host, also when before the  *)
(* pass only residual files without machine registration were there.       *)
(***************************************************************************)
C37_AbsentCleansResiduals ==
    /\ PassDone /\ faults = 0 /\ result["r1"] = "ok"
    /\ HasContainer("c1") /\ get_container_spec("c1").ensure = "absent"
    => /\ ~hostC["c1"].dir /\ ~hostC["c1"].raw
       /\ ~hostC["c1"].nspawn /\ ~hostC["c1"].override

(***************************************************************************)
(* C38.  Unprivileged commands are read-only: handling validate changes    *)
(* neither the catalogs nor the host, and does not re-load the             *)
(* desired-state directory.                                                *)
(***************************************************************************)
C38_UnprivilegedReadOnly ==
    [][validation' # validation =>
          /\ catalog' = catalog /\ host' = host
          /\ loads' = loads]_vars

(***************************************************************************)
(* C39.  No pty leak: when the handler of a streaming session has exited,  *)
(* by returning or by an exception, either no pty was allocated (request   *)
(* without a container name, and then no child was spawned) or both the    *)
(* slave and the master descriptor are closed.                             *)
(***************************************************************************)
C39_NoPtyLeak ==
    handler \in {"returned", "raised"} =>
        \/ master = "none" /\ slave = "none" /\ child = "none"
        \/ master = "closed" /\ slave = "closed"

(***************************************************************************)
(* FairAgent: the agent with an event loop that keeps running the          *)
(* reconcile() tasks and a host that answers: a task that can take its     *)
(* next step (the lock handed to it, its provider call answered)           *)
(* eventually takes it.                                                    *)
(***************************************************************************)
\* t can take a step: it is running, its provider call can return, or the
\* lock is handed to it
Runnable(t) ==
    \/ cpu = t
    \/ cpu = "none" /\ (pc[t] \in PassPcs \/ (pc[t] = "wait_lock" /\ Woken(t)))

\* a step of t: its position changes
Resume(t) ==
    /\ Runnable(t)
    /\ \E p \in (PassPcs \cup {"done"}) \ {pc[t]} : pc' = [pc EXCEPT ![t] = p]

FairAgent == SpecAgent /\ \A t \in Reconcilers : WF_pc(Resume(t))

(***************************************************************************)
(* C40.  The reconciliation mutex is always released: the step that ends a *)
(* pass (its normal end, an exception escaping it, its cancellation)       *)
(* leaves the mutex free; a reconcile() waiting for the mutex stops        *)
(* waiting only by entering its pass (or by its cancellation at shutdown), *)
(* and eventually no reconcile() is left waiting or under way; a periodic  *)
(* pass that failed leaves the periodic loop alive (until shutdown is      *)
(* asked for); last_reconciliation changes only in the step in which a     *)
(* pass runs to its end.                                                   *)
(***************************************************************************)
C40_MutexReleased ==
    /\ [][\A t \in Reconcilers : InPass(t) /\ ~InPass(t)' => holder' = "none"]_vars
    /\ [](\A t \in Reconcilers : pc[t] \in {"idle", "done", "wait_lock"} => holder # t)
    /\ [][\A t \in Reconcilers : pc[t] = "wait_lock" /\ pc'[t] # "wait_lock" =>
                                       InPass(t)' \/ result'[t] = "cancelled"]_vars
    /\ <>[](\A t \in Reconcilers : pc[t] \in {"idle", "done"})
    /\ [](pc["r1"] = "done" /\ result["r1"] = "raise" /\ ~shutdown_event
             => Alive("loop"))
    /\ [][last_reconciliation' # last_reconciliation =>
             /\ last_reconciliation' = last_reconciliation + 1
             /\ \E t \in Reconcilers :
                   pc[t] = "cont_loop" /\ pc'[t] = "done" /\ result'[t] = "ok"]_vars

\* the second periodic pass ran to its end after the first one was aborted
C40_Witness ==
    /\ passes = 2 /\ pc["r1"] = "done" /\ result["r1"] = "ok"
    /\ result["r2"] # "ok" /\ last_reconciliation = 1
    /\ holder = "none"

====
